---- MODULE Spec2Model ----
(***************************************************************************)
(* Model of the ingestion pipeline of src/vector_store.py:                 *)
(*   VectorStoreCreator.run -> discover_files -> load_all_documents        *)
(*   (DocumentProcessor.load_document per file) -> create_vector_store     *)
(*   (batched embedding with rate-limit retry).                            *)
(*                                                                         *)
(* Everything the program prints, every time.sleep, every embedding        *)
(* request and its outcome, and every commit to the index is appended to   *)
(* the history variable log, so that ordering claims are state predicates. *)
(*                                                                         *)
(* The external libraries are the environment: a loader either raises,     *)
(* returns nothing, returns blank text, or yields n chunks; an embedding   *)
(* request (Chroma.from_documents / add_documents) either succeeds and     *)
(* stores the whole batch, or raises before anything is stored.            *)
(***************************************************************************)
EXTENDS Integers, Sequences, FiniteSets, TLC

\* ------------------------------------------------------------------ bounds
MaxFiles == 2       \* files present under the content root
MaxChunks == 1      \* small per-file chunk counts are 1..MaxChunks
MaxDocs == 201      \* longest list handed directly to create_vector_store

\* ------------------------------------------------------- program constants
batch_size == 100
max_retries == 3
initial_retry_delay == 5
PauseMs == 500

\* --------------------------------------------------------------- utilities
Min(a, b) == IF a < b THEN a ELSE b

RECURSIVE Pow2(_)
Pow2(n) == IF n <= 0 THEN 1 ELSE 2 * Pow2(n - 1)

\* Python slice s[lo:hi] for 0 <= lo, with hi clipped to len(s).
Slice(s, lo, hi) == SubSeq(s, lo + 1, Min(hi, Len(s)))

\* One uniform record per observable event.
\*   op    : what happened
\*   batch : batch number concerned (0: none / not named)
\*   att   : attempt index of the batch (-1: not applicable)
\*   arg   : milliseconds slept, chunks committed, file position, ...
Ev(op, batch, att, arg) == [op |-> op, batch |-> batch, att |-> att, arg |-> arg]

\* ------------------------------------------------------------- file system
\* A path is its parent folder and the stem of its name (as characters) and its
\* suffix.  The paths that may exist: two files of the same name in two
\* folders, a Word file, an editor's lock file and a file of another format.
Path(folder, stem, suffix) == [folder |-> folder, stem |-> stem, suffix |-> suffix]
File ==
  { Path(<<"A">>, <<"n">>, ".md"),
    Path(<<"B">>, <<"n">>, ".md"),
    Path(<<"A">>, <<"n">>, ".docx"),
    Path(<<"A">>, <<"~", "n">>, ".docx"),
    Path(<<"A">>, <<"n">>, ".txt") }

\* Path.name : the file name without its folder.
Name(f) == f.stem \o <<f.suffix>>

\* The extensions discover_files globs for, in the order of its loop.
GlobExts == <<".docx", ".md", ".pdf">>

\* Extensions load_document has a loader for.
SupportedSuffixes == {".docx", ".md", ".pdf"}

\* name.startswith(('~', '.'))
IsTemp(f) == Head(Name(f)) \in {"~", "."}

\* list(folder.glob("**/*ext")) : the matching files in some directory order.
Orderings(S) ==
  {s \in [1..Cardinality(S) -> S] : \A a, b \in 1..Cardinality(S) : a # b => s[a] # s[b]}
Glob(fsys, ext) == Orderings({f \in fsys : f.suffix = ext})

FilterTemp(fl) == SelectSeq(fl, LAMBDA f : ~IsTemp(f))

\* ------------------------------------------------------------------ loader
\* What the format loader and the splitter do with one file.
\*   loader_raise   : the loader (or anything else in the try block) raises
\*   loader_no_docs : loader.load() returns an empty list
\*   loader_blank   : the joined content is empty or whitespace only
\*   loader_chunks  : the content is split into n >= 1 chunks
\* tables : detect_tables_in_content found a table row in the content
ChunkCounts == (1..MaxChunks) \cup {batch_size}
LoaderOutcomes ==
  {[kind |-> k, n |-> 0, tables |-> FALSE] :
     k \in {"loader_raise", "loader_no_docs", "loader_blank"}}
    \cup {[kind |-> "loader_chunks", n |-> c, tables |-> t] :
            c \in ChunkCounts, t \in BOOLEAN}

\* metadata of chunk idx of file f (the keys the index invariant names).
Chunk(f, idx, n) ==
  [source_file |-> Name(f), file_path |-> f, chunk_index |-> idx, total_chunks |-> n]

\* enumerate(chunks) : idx runs from 0.
ProcessedDocs(f, n) == [k \in 1..n |-> Chunk(f, k - 1, n)]

\* DocumentProcessor.load_document: every path through the try block.
load_document(f, outcome) ==
  IF f.suffix \notin SupportedSuffixes THEN <<>>
  ELSE IF outcome.kind \in {"loader_raise", "loader_no_docs", "loader_blank"} THEN <<>>
  ELSE ProcessedDocs(f, outcome.n)

\* all_documents.extend(docs)
Extend_replace(all, docs) == docs
Extend(all, docs) == all \o docs

\* ------------------------------------------------------ embedding provider
\* An exception of the provider, reduced to what the handlers look at.
Exceptions == [rate_limit_text : BOOLEAN, code429 : BOOLEAN]

\* "rate_limit" in str(e).lower() or "429" in str(e)
IsRateLimit_always(e) == TRUE
IsRateLimit(e) == e.rate_limit_text \/ e.code429

\* attempt < max_retries - 1
CanRetry_nocap(att) == att < max_retries
CanRetry(att) == att < max_retries - 1

\* (len(documents) + batch_size - 1) // batch_size
TotalBatches(n) == (n + batch_size - 1) \div batch_size

\* documents[:batch_size]
FirstBatch_short(docs) == Slice(docs, 0, batch_size - 1)
FirstBatch(docs) == Slice(docs, 0, batch_size)

\* documents[i:i + batch_size]
Batch_dropfirst(docs, i) == Slice(docs, i + 1, i + batch_size)
Batch(docs, i) == Slice(docs, i, i + batch_size)

\* (i // batch_size) + 1
BatchNum(i) == (i \div batch_size) + 1

\* range(batch_size, len(documents), batch_size) : the offset after i
NextOffset(i) == i + batch_size

\* retry_delay *= 2
NextRetryDelay(rd) == rd * 2

\* wait_time = retry_delay * (2 ** attempt)
WaitTime(rd, att) == rd * Pow2(att)

\* batch_num < total_batches
NeedsPause(bn, total) == bn < total

\* time.sleep(seconds), logged in milliseconds
Sleep(bn, att, seconds) == Ev("sleep", bn, att, seconds * 1000)

\* time.sleep(0.5) between batches
Pause(bn) == Ev("sleep", bn, -1, PauseMs)

\* What the provider answered, as recorded in the history: 1 when the
\* exception text carries a rate-limit signature, 0 when it carries none.
Signature(e) == IF e.rate_limit_text \/ e.code429 THEN 1 ELSE 0

\* UnboundLocalError: vector_store is read before any assignment.
UnboundError == [rate_limit_text |-> FALSE, code429 |-> FALSE]

\* ------------------------------------------------------------- run() tests
\* not os.getenv("OPENAI_API_KEY")
NoApiKey(key) == ~key

\* not files
NoFiles(fl) == Len(fl) = 0

\* not documents
NoDocuments_never(docs) == FALSE
NoDocuments(docs) == Len(docs) = 0

\* ------------------------------------------------------------------ bounds
MaxSegs == 2        \* pieces a file path is put together from

\* ----------------------------------------------------------------- strings
\* A string is the sequence of its characters.
UpperCase == <<"A", "B", "C", "D", "E", "F", "G", "H", "I", "J", "K", "L", "M", "N", "O", "P", "Q", "R", "S", "T", "U", "V", "W", "X", "Y", "Z">>
LowerCase == <<"a", "b", "c", "d", "e", "f", "g", "h", "i", "j", "k", "l", "m", "n", "o", "p", "q", "r", "s", "t", "u", "v", "w", "x", "y", "z">>
Digits == <<"0", "1", "2", "3", "4", "5", "6", "7", "8", "9">>

\* str.lower(), one character
LowerOf == [c \in {UpperCase[i] : i \in DOMAIN UpperCase} |->
              LowerCase[CHOOSE i \in DOMAIN UpperCase : UpperCase[i] = c]]
Lower(c) == IF c \in DOMAIN LowerOf THEN LowerOf[c] ELSE c

\* str.lower()
LowerStr(str) == [i \in DOMAIN str |-> Lower(str[i])]

IsDigit(c) == c \in {Digits[i] : i \in DOMAIN Digits}
DigitValue(c) == (CHOOSE i \in DOMAIN Digits : Digits[i] = c) - 1

\* \s
IsSpace(c) == c \in {" ", "\t", "\n"}

\* str starts with key at position i (1-based)
StartsAt(str, i, key) ==
  /\ i >= 1
  /\ i + Len(key) - 1 <= Len(str)
  /\ SubSeq(str, i, i + Len(key) - 1) = key

\* key in str
Contains(str, key) == \E i \in 1..(Len(str) + 1) : StartsAt(str, i, key)

\* concatenation of a sequence of strings
RECURSIVE Flatten(_)
Flatten(ss) == IF ss = <<>> THEN <<>> ELSE Head(ss) \o Flatten(Tail(ss))

\* -------------------------------------------------------------- file paths
\* The pieces the file paths given to the extractors are made of.
PathPieces ==
  { <<"S", "e", "s", "s", "i", "o", "n", " ", "3">>,
    <<"S", "E", "S", "S", "I", "O", "N", " ", "3">>,
    <<"s", "e", "s", "s", "i", "o", "n", " ", "1">>,
    <<"S", "e", "s", "s", "i", "o", "n", "-", "2">>,
    <<"C", "o", "r", "e", " ", "S", "e", "s", "s", "i", "o", "n", " ", "4">>,
    <<"0">>,
    <<"/">>,
    <<"x">>,
    <<"C", "o", "m", "m", "u", "n", "i", "t", "y">>,
    <<"r", "e", "v", "i", "s", "i", "o", "n">>,
    <<"B", "o", "a", "r", "d", "r", "o", "o", "m">>,
    <<"P", "i", "t", "c", "h">>,
    <<"c", "a", "p", "a", "b", "i", "l", "i", "t", "y">>,
    <<"I", "m", "a", "g", "e", " ", "C", "r", "e", "a", "t", "i", "o", "n">>,
    <<"4", "T", " ", "M", "a", "n", "a", "g", "e", "m", "e", "n", "t">>,
    <<"B", "i", "n", "g", " ", "F", "a">>,
    <<"s", "t", "r", "a", "t", "a", "g", "e", "m">>,
    <<"s", "e", "s", "s", "i", "o", "n", " ", "5">>,
    <<"S", "e", "s", "s", "i", "o", "n", " ", "6">> }

PathInputs == {Flatten(ss) : ss \in UNION {[1..n -> PathPieces] : n \in 1..MaxSegs}}

\* -------------------------------------------- MetadataExtractor (regexes)
\* Optional[int] : None
None == -1

\* re.IGNORECASE : the text as the case-insensitive matcher compares it
Fold_exact(str) == str
Fold(str) == LowerStr(str)

\* first position >= i that holds no white space (the end of \s*)
RECURSIVE SkipSpaces(_, _)
SkipSpaces(str, i) ==
  IF i <= Len(str) /\ IsSpace(str[i]) THEN SkipSpaces(str, i + 1) ELSE i

\* int() of the greedy run of digits (\d+) that starts at position i
RECURSIVE DigitRun(_, _, _)
DigitRun(str, i, acc) ==
  IF i <= Len(str) /\ IsDigit(str[i])
    THEN DigitRun(str, i + 1, 10 * acc + DigitValue(str[i]))
    ELSE acc

\* the pattern  <word><gap>(\d+)  matches at position i; gap is \s* or nothing
MatchesAt(low, str, i, word, spaces) ==
  /\ StartsAt(low, i, word)
  /\ LET d == IF spaces THEN SkipSpaces(str, i + Len(word)) ELSE i + Len(word)
     IN d <= Len(str) /\ IsDigit(str[d])

\* re.search : int(group(1)) of the leftmost match, or None
Search(str, word, spaces) ==
  LET at == {a \in 1..Len(str) : MatchesAt(Fold(str), str, a, word, spaces)} IN
  IF at # {}
    THEN LET i == CHOOSE a \in at : \A b \in at : a <= b
             d == IF spaces THEN SkipSpaces(str, i + Len(word)) ELSE i + Len(word)
         IN DigitRun(str, d, 0)
    ELSE None

\* the patterns of extract_session_number, in the order they are tried
SessionPatterns ==
  << [word |-> <<"s", "e", "s", "s", "i", "o", "n">>, spaces |-> TRUE],
     [word |-> <<"s", "e", "s", "s", "i", "o", "n">>, spaces |-> TRUE],
     [word |-> <<"s", "e", "s", "s", "i", "o", "n", "-">>, spaces |-> FALSE],
     [word |-> <<"c", "o", "r", "e", " ", "s", "e", "s", "s", "i", "o", "n", " ">>, spaces |-> FALSE] >>

\* MetadataExtractor.extract_session_number
RECURSIVE FirstPatternMatch(_, _)
FirstPatternMatch(str, k) ==
  IF k > Len(SessionPatterns) THEN None
  ELSE LET r == Search(str, SessionPatterns[k].word, SessionPatterns[k].spaces)
       IN IF r # None THEN r ELSE FirstPatternMatch(str, k + 1)

extract_session_number(file_path) == FirstPatternMatch(file_path, 1)

\* 'key' in path_lower
Has(path_lower, key) == Contains(path_lower, key)

\* MetadataExtractor.get_content_type with the special categories tested first
get_content_type_special_first(file_path) ==
  LET path_lower == LowerStr(file_path) IN
  IF Has(path_lower, <<"c", "o", "m", "m", "u", "n", "i", "t", "y">>) THEN "community_session"
  ELSE IF Has(path_lower, <<"r", "e", "v", "i", "s", "i", "o", "n">>) THEN "revision_session"
  ELSE IF Has(path_lower, <<"b", "o", "a", "r", "d", "r", "o", "o", "m">>) THEN "boardroom_session"
  ELSE IF Has(path_lower, <<"s", "e", "s", "s", "i", "o", "n", " ", "1">>) \/ Has(path_lower, <<"i", "m", "a", "g", "e", " ", "c", "r", "e", "a", "t", "i", "o", "n">>)
    THEN "session_1_image_creation"
  ELSE IF Has(path_lower, <<"s", "e", "s", "s", "i", "o", "n", " ", "2">>) \/ Has(path_lower, <<"4", "t", " ", "m", "a", "n", "a", "g", "e", "m", "e", "n", "t">>)
    THEN "session_2_4t_management"
  ELSE IF Has(path_lower, <<"s", "e", "s", "s", "i", "o", "n", " ", "3">>) \/ Has(path_lower, <<"c", "a", "p", "a", "b", "i", "l", "i", "t", "y">>)
    THEN "session_3_capability"
  ELSE IF Has(path_lower, <<"s", "e", "s", "s", "i", "o", "n", " ", "4">>) \/ Has(path_lower, <<"p", "i", "t", "c", "h">>)
    THEN "session_4_pitch"
  ELSE IF \/ Has(path_lower, <<"s", "e", "s", "s", "i", "o", "n", " ", "5">>)
          \/ Has(path_lower, <<"b", "i", "n", "g", " ", "f", "a">>)
          \/ Has(path_lower, <<"s", "t", "r", "a", "t", "a", "g", "e", "m">>)
    THEN "session_5_strategy"
  ELSE IF Has(path_lower, <<"s", "e", "s", "s", "i", "o", "n", " ", "6">>) THEN "session_6_implementation"
  ELSE "general"

\* MetadataExtractor.get_content_type
get_content_type(file_path) ==
  LET path_lower == LowerStr(file_path) IN
  IF Has(path_lower, <<"s", "e", "s", "s", "i", "o", "n", " ", "1">>) \/ Has(path_lower, <<"i", "m", "a", "g", "e", " ", "c", "r", "e", "a", "t", "i", "o", "n">>)
    THEN "session_1_image_creation"
  ELSE IF Has(path_lower, <<"s", "e", "s", "s", "i", "o", "n", " ", "2">>) \/ Has(path_lower, <<"4", "t", " ", "m", "a", "n", "a", "g", "e", "m", "e", "n", "t">>)
    THEN "session_2_4t_management"
  ELSE IF Has(path_lower, <<"s", "e", "s", "s", "i", "o", "n", " ", "3">>) \/ Has(path_lower, <<"c", "a", "p", "a", "b", "i", "l", "i", "t", "y">>)
    THEN "session_3_capability"
  ELSE IF Has(path_lower, <<"s", "e", "s", "s", "i", "o", "n", " ", "4">>) \/ Has(path_lower, <<"p", "i", "t", "c", "h">>)
    THEN "session_4_pitch"
  ELSE IF \/ Has(path_lower, <<"s", "e", "s", "s", "i", "o", "n", " ", "5">>)
          \/ Has(path_lower, <<"b", "i", "n", "g", " ", "f", "a">>)
          \/ Has(path_lower, <<"s", "t", "r", "a", "t", "a", "g", "e", "m">>)
    THEN "session_5_strategy"
  ELSE IF Has(path_lower, <<"s", "e", "s", "s", "i", "o", "n", " ", "6">>) THEN "session_6_implementation"
  ELSE IF Has(path_lower, <<"c", "o", "m", "m", "u", "n", "i", "t", "y">>) THEN "community_session"
  ELSE IF Has(path_lower, <<"r", "e", "v", "i", "s", "i", "o", "n">>) THEN "revision_session"
  ELSE IF Has(path_lower, <<"b", "o", "a", "r", "d", "r", "o", "o", "m">>) THEN "boardroom_session"
  ELSE "general"

\* ------------------------------------------------ extract_youtube_urls
MaxParts == 3       \* pieces a document text is put together from

\* {11}
IdLen == 11

\* [a-zA-Z0-9_-]
IsIdChar(c) ==
  \/ IsDigit(c)
  \/ \E i \in DOMAIN LowerCase : LowerCase[i] = c
  \/ \E i \in DOMAIN UpperCase : UpperCase[i] = c
  \/ c \in {"_", "-"}

\* (?:https?://)?(?:www\.)?(?:youtube\.com/watch\?v=|youtu\.be/)
UrlHeads ==
  {s \o w \o h :
     s \in {<<>>, <<"h", "t", "t", "p", ":", "/", "/">>, <<"h", "t", "t", "p", "s", ":", "/", "/">>},
     w \in {<<>>, <<"w", "w", "w", ".">>},
     h \in {<<"y", "o", "u", "t", "u", "b", "e", ".", "c", "o", "m", "/", "w", "a", "t", "c", "h", "?", "v", "=">>, <<"y", "o", "u", "t", "u", ".", "b", "e", "/">>}}

\* (?:youtube|utube|video|link|url)
LabelWords == {<<"y", "o", "u", "t", "u", "b", "e">>, <<"u", "t", "u", "b", "e">>, <<"v", "i", "d", "e", "o">>, <<"l", "i", "n", "k">>, <<"u", "r", "l">>}

\* where \s*(?:url)?\s*[:=-]\s* ends when it starts at position i, or 0 when
\* it does not match there (low is the folded text)
LabelTail(low, i) ==
  LET b == SkipSpaces(low, i)
      c == IF StartsAt(low, b, <<"u", "r", "l">>) THEN b + 3 ELSE b
      d == SkipSpaces(low, c)
  IN IF d <= Len(low) /\ low[d] \in {":", "=", "-"} THEN SkipSpaces(low, d + 1) ELSE 0

\* the positions at which the URL part of pattern p may start when the match
\* of pattern p starts at position i
UrlStarts(p, low, i) ==
  IF p = 1 THEN {i}
  ELSE {LabelTail(low, i + Len(w)) : w \in {w \in LabelWords : StartsAt(low, i, w)}} \ {0}

\* the positions at which the video id may start when pattern p matches at i
IdStarts(p, low, i) ==
  {uh[1] + Len(uh[2]) :
     uh \in {x \in UrlStarts(p, low, i) \X UrlHeads : StartsAt(low, x[1], x[2])}}

\* ([a-zA-Z0-9_-]{11}) at position j
IdAt(str, j) ==
  /\ j + IdLen - 1 <= Len(str)
  /\ \A m \in j..(j + IdLen - 1) : IsIdChar(str[m])

\* pattern.findall(text) from position i on: the group of every match, left
\* to right, matches not overlapping
RECURSIVE FindAll(_, _, _, _)
FindAll(p, str, low, i) ==
  IF i > Len(str) THEN <<>>
  ELSE LET js == {j \in IdStarts(p, low, i) : IdAt(str, j)}
       IN IF js # {}
            THEN LET j == CHOOSE a \in js : TRUE
                 IN <<SubSeq(str, j, j + IdLen - 1)>> \o FindAll(p, str, low, j + IdLen)
            ELSE FindAll(p, str, low, i + 1)

\* self.youtube_patterns, by number
youtube_patterns == {1, 2}

Matches(p, text) == FindAll(p, text, Fold(text), 1)

Range(s) == {s[i] : i \in DOMAIN s}

\* video_ids after the loop over the patterns
video_ids(text) == UNION {Range(Matches(p, text)) : p \in youtube_patterns}

\* f"https://www.youtube.com/watch?v={vid}"
CanonicalUrl(vid) == <<"h", "t", "t", "p", "s", ":", "/", "/", "w", "w", "w", ".", "y", "o", "u", "t", "u", "b", "e", ".", "c", "o", "m", "/", "w", "a", "t", "c", "h", "?", "v", "=">> \o vid

\* extract_youtube_urls with the matches kept in a list
extract_youtube_urls_list(text) ==
  LET all == Matches(1, text) \o Matches(2, text)
  IN {[a \in DOMAIN all |-> CanonicalUrl(all[a])]}

\* MetadataExtractor.extract_youtube_urls : the lists it may return; the
\* order in which a set is iterated is not fixed
extract_youtube_urls(text) ==
  {[a \in DOMAIN o |-> CanonicalUrl(o[a])] : o \in Orderings(video_ids(text))}

\* The pieces the document texts given to extract_youtube_urls are made of.
TextPieces ==
  { <<"h", "t", "t", "p", "s", ":", "/", "/", "y", "o", "u", "t", "u", ".", "b", "e", "/", "a", "b", "c", "d", "e", "f", "g", "h", "i", "j", "k">>,
    <<"v", "i", "d", "e", "o", " ", "u", "r", "l", ":", " ", "h", "t", "t", "p", "s", ":", "/", "/", "y", "o", "u", "t", "u", "b", "e", ".", "c", "o", "m", "/", "w", "a", "t", "c", "h", "?", "v", "=", "a", "b", "c", "d", "e", "f", "g", "h", "i", "j", "k">>,
    <<"L", "i", "n", "k", " ", "-", " ", "w", "w", "w", ".", "y", "o", "u", "t", "u", "b", "e", ".", "c", "o", "m", "/", "w", "a", "t", "c", "h", "?", "v", "=", "A", "B", "C", "D", "E", "F", "G", "H", "I", "J", "K">>,
    <<"H", "T", "T", "P", ":", "/", "/", "Y", "O", "U", "T", "U", ".", "B", "E", "/", "a", "_", "b", "-", "c", "_", "d", "-", "e", "_", "f">>,
    <<" ">>,
    <<"y", "o", "u", "t", "u", ".", "b", "e", "/", "a", "b", "c">>,
    <<"x", "y", "z", "x", "y", "z", "x", "y">>,
    <<"u", "r", "l", "=">> }

TextInputs == {Flatten(ss) : ss \in UNION {[1..n -> TextPieces] : n \in 1..MaxParts}}

\* ------------------------------------------------- extract_section_info
MaxLines == 3       \* lines a structured text is put together from
MaxBody == 120      \* characters of a body line

\* chunk[:100]
ChunkStartLen == 100
\* text[:chunk_pos + 100]
BeforeSlack == 100

\* the value of an expression, computed once: The({e})
The(S) == CHOOSE x \in S : TRUE

SetMin(S) == CHOOSE a \in S : \A b \in S : a <= b
SetMax(S) == CHOOSE a \in S : \A b \in S : a >= b

\* str.strip()
Strip(str) ==
  LET ns == {i \in DOMAIN str : ~IsSpace(str[i])}
  IN IF ns = {} THEN <<>> ELSE SubSeq(str, SetMin(ns), SetMax(ns))

\* str.find(key) : 0-based position of the first occurrence, or -1
Find(str, key) ==
  LET at == {i \in 1..(Len(str) + 1) : StartsAt(str, i, key)}
  IN IF at = {} THEN -1 ELSE SetMin(at) - 1

\* str.replace(key, '')
RECURSIVE Remove(_, _)
Remove(str, key) ==
  LET p == Find(str, key)
  IN IF p = -1 THEN str
     ELSE SubSeq(str, 1, p) \o Remove(SubSeq(str, p + Len(key) + 1, Len(str)), key)

\* str[:n]
Prefix(str, n) == SubSeq(str, 1, Min(n, Len(str)))

\* first position >= i that holds no digit (the end of \d+)
DigitEnd(str, i) == SetMin({j \in i..Len(str) : ~IsDigit(str[j])} \cup {Len(str) + 1})

\* first position >= i that holds a line break, or the end (the end of [^\n]+)
LineEnd(str, i) == SetMin({j \in i..Len(str) : str[j] = "\n"} \cup {Len(str) + 1})

\* first position >= i that holds a star, or the end (the end of [^*]+)
StarEnd(str, i) == SetMin({j \in i..Len(str) : str[j] = "*"} \cup {Len(str) + 1})

\* where ([^\n]+) starts when \s* (least == 0) or \s+ (least == 1) begins at
\* position c: the white space is taken greedily and given back until a
\* character other than a line break follows; 0 when there is none
TitleStart(str, c, least) ==
  LET ts == {t \in (c + least)..Min(SkipSpaces(str, c), Len(str)) : str[t] # "\n"}
  IN IF ts = {} THEN 0 ELSE SetMax(ts)

NoMatch == [start |-> 0, num |-> 0, title |-> <<>>, end |-> 0]

\* section_patterns, in the order they are tried:
\*   ##\s*SECTION\s+(\d+):\s*([^\n]+)   SECTION\s+(\d+):\s*([^\n]+)
\*   ##\s*(\d+)\.\s*([^\n]+)
section_patterns ==
  << [hash |-> TRUE, word |-> TRUE, sep |-> ":"],
     [hash |-> FALSE, word |-> TRUE, sep |-> ":"],
     [hash |-> TRUE, word |-> FALSE, sep |-> "."] >>

\* the match of section pattern k that starts at position i, or NoMatch
SectionMatch(k, low, str, i) ==
  LET pat == section_patterns[k]
      a == IF ~pat.hash THEN i
           ELSE IF StartsAt(str, i, <<"#", "#">>) THEN SkipSpaces(str, i + 2) ELSE 0
      b == IF a = 0 \/ ~pat.word THEN a
           ELSE IF StartsAt(low, a, <<"s", "e", "c", "t", "i", "o", "n">>) /\ SkipSpaces(str, a + 7) > a + 7
                  THEN SkipSpaces(str, a + 7) ELSE 0
      e == IF b = 0 THEN 0 ELSE DigitEnd(str, b)
      t == IF e > b /\ e <= Len(str) /\ str[e] = pat.sep THEN TitleStart(str, e + 1, 0) ELSE 0
  IN IF b = 0 \/ t = 0 THEN NoMatch
     ELSE [start |-> i, num |-> DigitRun(str, b, 0),
           title |-> Strip(SubSeq(str, t, LineEnd(str, t) - 1)), end |-> LineEnd(str, t)]

\* subsection_patterns, in the order they are tried:
\*   ###\s+([^\n]+)   ####\s+([^\n]+)   \*\*([^*]+)\*\*:
subsection_patterns == <<<<"#", "#", "#">>, <<"#", "#", "#", "#">>, <<"*", "*">>>>

\* the match of subsection pattern k that starts at position i, or NoMatch
SubsectionMatch(k, str, i) ==
  LET mark == subsection_patterns[k]
      c == i + Len(mark)
  IN IF ~StartsAt(str, i, mark) THEN NoMatch
     ELSE IF k = 3
       THEN LET f == StarEnd(str, c)
            IN IF f > c /\ StartsAt(str, f, <<"*", "*", ":">>)
                 THEN [start |-> i, num |-> 0, title |-> Strip(SubSeq(str, c, f - 1)), end |-> f + 3]
                 ELSE NoMatch
       ELSE LET t == TitleStart(str, c, 1)
            IN IF t = 0 THEN NoMatch
               ELSE [start |-> i, num |-> 0,
                     title |-> Strip(SubSeq(str, t, LineEnd(str, t) - 1)), end |-> LineEnd(str, t)]

\* the match of pattern k of the section family (sec) or of the subsection
\* family that starts at position i
MatchAt(sec, k, low, str, i) ==
  IF sec THEN SectionMatch(k, low, str, i) ELSE SubsectionMatch(k, str, i)

\* list(re.finditer(pattern, str)) from position i on: the leftmost match,
\* then the matches behind its end
RECURSIVE FindIter(_, _, _, _, _)
FindIter(sec, k, low, str, i) ==
  LET at == {a \in i..Len(str) : MatchAt(sec, k, low, str, a) # NoMatch}
  IN IF at = {} THEN <<>>
     ELSE The({<<m>> \o FindIter(sec, k, low, str, m.end) :
                 m \in {MatchAt(sec, k, low, str, SetMin(at))}})

\* the loop over a pattern list: matches[-1] of the first pattern that has
\* a match, or NoMatch
RECURSIVE LastOfFirstFamily(_, _, _)
LastOfFirstFamily(sec, k, str) ==
  IF k > 3 THEN NoMatch
  ELSE The({IF matches # <<>> THEN matches[Len(matches)]
                                ELSE LastOfFirstFamily(sec, k + 1, str) :
              matches \in {The({FindIter(sec, k, low, str, 1) : low \in {Fold(str)}})}})

\* chunk_pos : where the start of the chunk is found in the text
chunk_pos(text, chunk) ==
  LET first == Find(text, Strip(Prefix(chunk, ChunkStartLen)))
      clean_chunk == Remove(Remove(chunk, <<"[", "T", "A", "B", "L", "E", "_", "S", "T", "A", "R", "T", "]">>), <<"[", "T", "A", "B", "L", "E", "_", "E", "N", "D", "]">>)
  IN IF first # -1 THEN first ELSE Find(text, Strip(Prefix(clean_chunk, ChunkStartLen)))

\* DocumentProcessor.extract_section_info; a field that is None is <<>>, a
\* field that is set is <<value>>
section_info(found, last, sub) ==
  [section_number |-> IF found /\ last # NoMatch THEN <<last.num>> ELSE <<>>,
   section_title |-> IF found /\ last # NoMatch THEN <<last.title>> ELSE <<>>,
   subsection |-> IF found /\ sub # NoMatch THEN <<sub.title>> ELSE <<>>]

extract_section_info(text, chunk) ==
  The({The({The({section_info(pos # -1, last, sub) :
                   last \in {LastOfFirstFamily(TRUE, 1, text_before)},
                   sub \in {LastOfFirstFamily(FALSE, 1, text_before)}}) :
              text_before \in {Prefix(text, pos + BeforeSlack)}}) :
         pos \in {chunk_pos(text, chunk)}})

\* The lines the structured texts are made of.
Repeat(c, n) == [i \in 1..n |-> c]
TextLines ==
  << <<"#", "#", " ", "S", "E", "C", "T", "I", "O", "N", " ", "1", ":", " ", "A", "\n">>,
     <<"S", "e", "c", "t", "i", "o", "n", " ", "2", ":", " ", "B", "\n">>,
     <<"#", "#", " ", "3", ".", " ", "C", "\n">>,
     <<"#", "#", "#", " ", "S", "\n">>,
     <<"*", "*", "K", "*", "*", ":", " ", "v", "\n">>,
     Repeat("x", MaxBody) \o <<"\n">> >>

LineLists == UNION {[1..n -> DOMAIN TextLines] : n \in 1..MaxLines}

\* A text, given by the numbers of its lines, and a chunk of it: the text
\* from line `from` on, as the splitter cuts at line breaks; from = 0 is a
\* chunk that is not part of the text.
SectionInputs == UNION {{[lines |-> ls, from |-> k] : k \in 0..Len(ls)} : ls \in LineLists}

TextOf(p) == Flatten([i \in DOMAIN p.lines |-> TextLines[p.lines[i]]])
ChunkOf(p) ==
  IF p.from = 0 THEN <<"[", "T", "A", "B", "L", "E", "_", "S", "T", "A", "R", "T", "]", "\n", "|", " ", "z", " ", "|">>
  ELSE Flatten([i \in 1..(Len(p.lines) - p.from + 1) |-> TextLines[p.lines[p.from + i - 1]]])

\* --------------------------------------------------- table-aware chunking
MaxDocLines == 5    \* lines of a document

\* table_aware_splitter
chunk_size == 2500
chunk_overlap == 500

\* A document is the sequence of its lines; a line is its kind and its
\* length, line break included.
\*   text  : a line without a pipe         row : | a | b |
\*   sep   : |---|---|                     blank : an empty line
\*   head  : ## SECTION n: title           start, end : the table markers
Line(kind, len) == [kind |-> kind, len |-> len]
DocLines ==
  {Line("text", 1200), Line("row", 900), Line("sep", 10), Line("blank", 1), Line("head", 20)}

\* \|[^\n]+\|
IsRow(l) == l.kind \in {"row", "sep"}
\* \|[\s\-:|]+\|
IsSepRow(l) == l.kind = "sep"

\* MetadataExtractor.detect_tables_in_content
detect_tables_in_content(doc) == \E i \in DOMAIN doc : IsRow(doc[i])

\* the table pattern matches from line i on: a row, a separator row, and
\* one data row at least
TableAt(doc, i) ==
  /\ i + 2 <= Len(doc)
  /\ IsRow(doc[i])
  /\ IsSepRow(doc[i + 1])
  /\ IsRow(doc[i + 2])

\* the last line of the table that starts at line i: (?:\|[^\n]+\|\n?)+ is greedy
TableEnd(doc, i) == SetMax({j \in (i + 2)..Len(doc) : \A m \in (i + 2)..j : IsRow(doc[m])})

\* TableProcessor.extract_tables : the tables from line i on, left to right
RECURSIVE extract_tables(_, _)
extract_tables(doc, i) ==
  IF i > Len(doc) THEN <<>>
  ELSE IF TableAt(doc, i)
    THEN <<[start |-> i, end |-> TableEnd(doc, i)]>> \o extract_tables(doc, TableEnd(doc, i) + 1)
    ELSE extract_tables(doc, i + 1)

\* f"\n\n[TABLE_START]\n{table_content}\n[TABLE_END]\n\n"
marked_table(table_content) ==
  <<Line("blank", 1), Line("blank", 1), Line("start", 14)>> \o table_content
    \o <<Line("blank", 1), Line("end", 12), Line("blank", 1)>>

\* the loop of mark_table_boundaries over reversed(tables), the first k
\* tables still to be marked
RECURSIVE MarkFromEnd(_, _, _)
MarkFromEnd(result, tables, k) ==
  IF k = 0 THEN result
  ELSE MarkFromEnd(SubSeq(result, 1, tables[k].start - 1)
                     \o marked_table(SubSeq(result, tables[k].start, tables[k].end))
                     \o SubSeq(result, tables[k].end + 1, Len(result)),
                   tables, k - 1)

\* TableProcessor.mark_table_boundaries
mark_table_boundaries(doc) ==
  LET tables == extract_tables(doc, 1)
  IN IF tables = <<>> THEN doc ELSE MarkFromEnd(doc, tables, Len(tables))

\* separators of the table_aware_splitter, in order
separators == <<"[TABLE_START]", "\n\n## SECTION", "\n\n### ", "\n\n", "\n">>

\* A piece of a text is the pair <<a, b>> of its first and last line.
RECURSIVE PieceLen(_, _, _)
PieceLen(lines, a, b) == IF a > b THEN 0 ELSE lines[a].len + PieceLen(lines, a + 1, b)

\* separator s stands at line c of the piece that starts at line a: the line
\* break before line c belongs to the separators that begin with one
SeparatorAt(lines, a, b, s, c) ==
  CASE s = "[TABLE_START]" -> lines[c].kind = "start"
    [] s = "\n\n## SECTION" -> c > a /\ c < b /\ lines[c].kind = "blank" /\ lines[c + 1].kind = "head"
    [] s = "\n\n### " -> FALSE
    [] s = "\n\n" -> c > a /\ lines[c].kind = "blank"
    [] s = "\n" -> c > a

\* the lines of the piece <<a, b>> before which separator s cuts, from line
\* c on; matches do not overlap, and a match of a separator that begins
\* with two line breaks takes the line break of line c with it
RECURSIVE Cuts(_, _, _, _, _)
Cuts(lines, a, b, s, c) ==
  IF c > b THEN {}
  ELSE IF SeparatorAt(lines, a, b, s, c)
    THEN {c} \cup Cuts(lines, a, b, s, IF s \in {"[TABLE_START]", "\n"} THEN c + 1 ELSE c + 2)
    ELSE Cuts(lines, a, b, s, c + 1)

\* the pieces the cuts divide <<a, b>> into, the separator kept at the start
\* of the piece that follows it
RECURSIVE PiecesFrom(_, _, _)
PiecesFrom(a, b, cuts) ==
  LET next == {c \in cuts : c > a}
  IN IF next = {} THEN <<<<a, b>>>>
     ELSE <<<<a, SetMin(next) - 1>>>> \o PiecesFrom(SetMin(next), b, next)

\* the while loop of _merge_splits: drop pieces from the front of the
\* current document until the overlap is small enough and the next piece fits
RECURSIVE PopFront(_, _, _, _, _)
PopFront(lines, splits, from, total, len) ==
  IF total > chunk_overlap \/ (total + len > chunk_size /\ total > 0)
    THEN PopFront(lines, splits, from + 1,
                  total - PieceLen(lines, splits[from][1], splits[from][2]), len)
    ELSE <<from, total>>

\* "".join(current_doc).strip() : the chunk, or nothing when only white
\* space is left
Join(lines, a, b) ==
  LET ns == {m \in a..b : lines[m].kind # "blank"}
  IN IF ns = {} THEN <<>> ELSE <<<<SetMin(ns), SetMax(ns)>>>>

\* _merge_splits : pieces from..(i - 1) are the current document
RECURSIVE MergeSplits(_, _, _, _, _, _)
MergeSplits(lines, splits, i, from, total, docs) ==
  IF i > Len(splits)
    THEN IF from < i THEN docs \o Join(lines, splits[from][1], splits[i - 1][2]) ELSE docs
  ELSE LET len == PieceLen(lines, splits[i][1], splits[i][2])
       IN IF total + len > chunk_size /\ from < i
            THEN LET popped == PopFront(lines, splits, from, total, len)
                 IN MergeSplits(lines, splits, i + 1, popped[1], popped[2] + len,
                                docs \o Join(lines, splits[from][1], splits[i - 1][2]))
            ELSE MergeSplits(lines, splits, i + 1, from, total + len, docs)

\* the separator _split_text uses on the piece <<a, b>>: the first of
\* separators[k..] that occurs in it, or the last one
ChosenSeparator(lines, a, b, k) ==
  LET found == {j \in k..Len(separators) :
                  \/ Cuts(lines, a, b, separators[j], a) # {}
                  \/ separators[j] = "\n"}
  IN IF found = {} THEN Len(separators) ELSE SetMin(found)

\* RecursiveCharacterTextSplitter._split_text on the piece <<a, b>> with
\* separators[k..], and its loop over the pieces (good : _good_splits)
RECURSIVE SplitText(_, _, _, _)
RECURSIVE SplitLoop(_, _, _, _, _)
SplitText(lines, a, b, k) ==
  LET j == ChosenSeparator(lines, a, b, k)
  IN SplitLoop(lines, PiecesFrom(a, b, Cuts(lines, a, b, separators[j], a)), 1, <<>>, j + 1)

SplitLoop(lines, pieces, i, good, k) ==
  LET merged == IF good = <<>> THEN <<>> ELSE MergeSplits(lines, good, 1, 1, 0, <<>>)
  IN IF i > Len(pieces) THEN merged
     ELSE IF PieceLen(lines, pieces[i][1], pieces[i][2]) < chunk_size
       THEN SplitLoop(lines, pieces, i + 1, Append(good, pieces[i]), k)
       ELSE merged
              \o (IF k > Len(separators) THEN <<pieces[i]>>
                  ELSE SplitText(lines, pieces[i][1], pieces[i][2], k))
              \o SplitLoop(lines, pieces, i + 1, <<>>, k)

\* splitter.split_text(full_content) : the chunks, each the pair of its
\* first and last line
split_text(lines) == IF lines = <<>> THEN <<>> ELSE SplitText(lines, 1, Len(lines), 1)

\* the documents in which a table is detected
DocInputs ==
  {doc \in UNION {[1..n -> DocLines] : n \in 1..MaxDocLines} : detect_tables_in_content(doc)}

\* ------------------------------------------------------ VectorStoreLoader
MaxRecords == 2     \* records in the built index
MaxK == 2           \* largest k asked for

\* The metadata of an indexed record that the filters name. The records of
\* a collection lie on a line, record i at point i, and so do the queries.
Record(session_number, has_tables) ==
  [session_number |-> session_number, has_tables |-> has_tables]
Records == {Record(s, t) : s \in 1..2, t \in BOOLEAN}
Collections == UNION {[1..n -> Records] : n \in 0..MaxRecords}
Queries == {1, 2}

\* A filter dictionary is the set of its <<key, value>> items; {} is also None.
FilterDicts ==
  { {},
    {<<"has_tables", TRUE>>},
    {<<"session_number", 1>>, <<"has_tables", FALSE>>} }

\* the record satisfies every item of the filter
Satisfies(rec, filter) == \A item \in filter : rec[item[1]] = item[2]

\* distance between the query and record i of the collection
Distance(query, i) == IF i >= query THEN i - query ELSE query - i

\* the k records nearest to the query among the candidates, nearest first
RECURSIVE NearestFirst(_, _, _, _)
NearestFirst(idx, query, k, cands) ==
  IF k = 0 \/ cands = {} THEN <<>>
  ELSE LET i == CHOOSE a \in cands : \A b \in cands :
                  \/ Distance(query, a) < Distance(query, b)
                  \/ Distance(query, a) = Distance(query, b) /\ a <= b
       IN <<i>> \o NearestFirst(idx, query, k - 1, cands \ {i})

\* Chroma.similarity_search(query, k, filter) : the positions in the
\* collection of the records it returns
similarity_search(idx, query, k, filter) ==
  NearestFirst(idx, query, k, {i \in DOMAIN idx : Satisfies(idx[i], filter)})

\* what a call ends with: a list of records, or an exception
Returns(hits) == [ok |-> TRUE, hits |-> hits]
Raises == [ok |-> FALSE, hits |-> <<>>]

\* not self.vector_store
NeedsLoad_never(vs) == FALSE
NeedsLoad(vs) == vs = "none"

\* the two return statements of search, on the handle vs
SearchStore(idx, vs, query, k, filter_dict) ==
  IF vs = "none" THEN Raises
  ELSE IF filter_dict # {} THEN Returns(similarity_search(idx, query, k, filter_dict))
  ELSE Returns(similarity_search(idx, query, k, {}))

\* search_by_session without its filter
session_filter_none(session_number) == {}
\* filter_dict={'session_number': session_number}
session_filter(session_number) == {<<"session_number", session_number>>}

\* The calls: search(query, k, filter_dict) and
\* search_by_session(query, session_number, k).
Call(op, query, k, filter_dict, session_number) ==
  [op |-> op, query |-> query, k |-> k, filter_dict |-> filter_dict,
   session_number |-> session_number, pc |-> "check", loaded |-> FALSE, result |-> Raises]
Calls ==
  {Call("search", q, k, f, 0) : q \in Queries, k \in 1..MaxK, f \in FilterDicts}
    \cup {Call("search_by_session", q, k, {}, s) : q \in Queries, k \in 1..MaxK, s \in 1..2}

\* the filter_dict search runs with
FilterOf(call) ==
  IF call.op = "search_by_session" THEN session_filter(call.session_number) ELSE call.filter_dict

\* The callers that use one loader at the same time.
Callers == {"c1", "c2"}

\* --------------------------------------------------------------- chat app
MaxTurns == 1       \* questions shown in one chat at a time
MaxClock == 2       \* timestamps handed out

\* conversation_history[-10:]
HistoryLimit == 10

\* The browser sessions that share the cached RAG system.
Sessions == {"s1", "s2"}
Inputs == {"q1", "q2"}

\* What rag_system.ask_stream yields before it ends: chunks of the answer
\* and history-update markers.
Streams == {<<"a1">>, <<"__HISTORY_UPDATE__:", "a1", "a2">>}
IsHistoryMarker(chunk) == chunk = "__HISTORY_UPDATE__:"

\* The text of the exception ask_stream raises.
StreamErrors == {"e1"}

\* What the form hands to the script run: the text field and the button.
Buttons == {"send", "clear_chat", "clear_memory"}
FormInputs == Inputs \cup {""}

\* if send_button and user_input
Sends_text(send_button, user_input) == user_input # ""
Sends(send_button, user_input) == send_button /\ user_input # ""

\* error_msg
ErrorMessage(e) == <<"Sorry, I encountered an error: ", e>>

\* the content of the assistant message appended by the except block
ShownOnError_partial(full_response, error_msg) == full_response
ShownOnError(full_response, error_msg) == error_msg

\* full_response : the chunks that are not markers, in order
FullResponse(chunks) == SelectSeq(chunks, LAMBDA c : ~IsHistoryMarker(c))

Message(role, content) == [role |-> role, content |-> content]
HistoryEntry(question, answer, timestamp) ==
  [question |-> question, answer |-> answer, timestamp |-> timestamp]

\* a history that has reached the limit in earlier exchanges
FullHistory == [i \in 1..HistoryLimit |-> HistoryEntry("q0", <<"a0">>, 0)]

\* st.session_state of one session after initialize_chat, or later
SessionState(history) ==
  [messages |-> <<>>, conversation_history |-> history, pc |-> "idle", user_input |-> ""]

\* st.session_state.conversation_history read by every session from the first one
HistoryOf_shared(ss, s) == ss["s1"].conversation_history
\* st.session_state.conversation_history in the script run of session s
HistoryOf(ss, s) == ss[s].conversation_history

\* conversation_history[:10] when it is longer than 10
Trim_first(history) ==
  IF Len(history) > HistoryLimit THEN SubSeq(history, 1, HistoryLimit) ELSE history
\* conversation_history[-10:] when it is longer than 10
Trim(history) ==
  IF Len(history) > HistoryLimit
    THEN SubSeq(history, Len(history) - HistoryLimit + 1, Len(history))
    ELSE history

\* ------------------------------------------------------------- statistics
\* VectorStoreCreator.stats after construction (the counters of the claims)
stats0 ==
  [total_files |-> 0, total_documents |-> 0, by_category |-> <<>>,
   by_session |-> <<>>, by_format |-> <<>>, files_with_tables |-> 0]

\* d[key] = d.get(key, 0) + 1
Bump_reset(d, key) == IF key \in DOMAIN d THEN [d EXCEPT ![key] = 1] ELSE d @@ (key :> 1)
Bump(d, key) == IF key \in DOMAIN d THEN [d EXCEPT ![key] = @ + 1] ELSE d @@ (key :> 1)

\* Python's truth value of an Optional[int]
Truthy(x) == x # None /\ x # 0

\* str(n) of a natural number
RECURSIVE Str(_)
Str(n) == IF n < 10 THEN <<Digits[n + 1]>> ELSE Str(n \div 10) \o <<Digits[(n % 10) + 1]>>

\* str(file_path)
PathStr(f) == f.folder \o <<"/">> \o f.stem \o <<f.suffix>>

\* metadata['category']
category(parent_folder, session_num) ==
  IF Contains(LowerStr(parent_folder), <<"c", "o", "m", "m", "u", "n", "i", "t", "y">>) THEN <<"c", "o", "m", "m", "u", "n", "i", "t", "y">>
  ELSE IF Contains(LowerStr(parent_folder), <<"r", "e", "v", "i", "s", "i", "o", "n">>) THEN <<"r", "e", "v", "i", "s", "i", "o", "n">>
  ELSE IF Truthy(session_num) THEN <<"s", "e", "s", "s", "i", "o", "n", "_">> \o Str(session_num)
  ELSE <<"g", "e", "n", "e", "r", "a", "l">>

\* the tags load_document gives every chunk of file f
FileTags(f, has_tables) ==
  LET session_num == extract_session_number(PathStr(f)) IN
  [has_tables |-> has_tables, session_number |-> session_num,
   content_type |-> get_content_type(PathStr(f)),
   category |-> category(f.folder, session_num)]

\* the counters after one more file that produced chunks
UpdateStats(st, f, tags) ==
  [st EXCEPT !.total_files = @ + 1,
             !.by_format = Bump(@, f.suffix),
             !.files_with_tables = IF tags.has_tables THEN @ + 1 ELSE @,
             !.by_category = Bump(@, tags.category),
             !.by_session = IF Truthy(tags.session_number)
                              THEN Bump(@, tags.session_number) ELSE @]

\* Files of every category: a community folder, a revision folder that holds
\* a session file, session folders, a file numbered 0 and another format.
StatFiles ==
  { Path(<<"C", "o", "m", "m", "u", "n", "i", "t", "y">>, <<"n">>, ".md"),
    Path(<<"r", "e", "v", "i", "s", "i", "o", "n">>, <<"S", "e", "s", "s", "i", "o", "n", " ", "2">>, ".docx"),
    Path(<<"S", "e", "s", "s", "i", "o", "n", " ", "1">>, <<"n">>, ".pdf"),
    Path(<<"S", "e", "s", "s", "i", "o", "n", " ", "2">>, <<"n">>, ".md"),
    Path(<<"A">>, <<"S", "e", "s", "s", "i", "o", "n", " ", "0">>, ".md"),
    Path(<<"A">>, <<"n">>, ".txt") }
StatLists == UNION {[1..n -> StatFiles] : n \in 0..MaxFiles}

\* Files whose folder and whose name are one path piece each.
TagFiles == {Path(d, n, ".md") : d, n \in PathPieces \ {<<"/">>}}

\* ------------------------------------------------------------------- state
VARIABLES
  entry,          \* which method the caller invoked
  apiKey,         \* OPENAI_API_KEY is set
  rootExists,     \* content_folder.exists()
  fs,             \* files under the content root
  pc,             \* position in the pipeline
  result,         \* "none" | "returned" | "raised" : how the entry call ended
  files,          \* list returned by discover_files
  fpos,           \* files already handled by load_all_documents
  all_documents,  \* load_all_documents' accumulator
  documents,      \* argument of create_vector_store
  total_batches,
  attempt,
  retry_delay,
  offset,         \* loop variable i of the later-batches loop
  store_bound,    \* local vector_store has been assigned
  index,          \* records persisted in the Chroma collection, in order
  cvs,            \* "idle" | "running" | "returned" | "raised"
  log,            \* history of observable events
  fn,             \* pure function under evaluation ("none": no evaluation)
  pin,            \* its argument
  pout,           \* its result
  vector_store,   \* VectorStoreLoader.vector_store : "none" or the handle
  threads,        \* the callers of VectorStoreLoader.search
  stats,          \* VectorStoreCreator.stats
  sessions,       \* st.session_state of every browser session
  clock,          \* datetime.now()
  last,           \* the latest chat operation and what it handed to ask_stream
  answered,       \* per session: the exchanges answered since the last Clear Memory
  event           \* <<>> or <<the latest form submission or end of a stream>>

vars == <<entry, apiKey, rootExists, fs, pc, result, files, fpos, all_documents,
          documents, total_batches, attempt, retry_delay, offset, store_bound,
          index, cvs, log, fn, pin, pout, vector_store, threads, stats, sessions,
          clock, last, answered, event>>

pureVars == <<fn, pin, pout>>
searchVars == <<vector_store, threads>>
chatVars == <<sessions, clock, last, answered, event>>
auxVars == <<pureVars, searchVars, chatVars>>

envVars == <<entry, apiKey, rootExists, fs>>
loadVars == <<files, fpos, all_documents, stats>>
cvsVars == <<documents, total_batches, attempt, retry_delay, offset, store_bound,
             index, cvs>>

\* The chunks of a caller-supplied list of n chunks.
SyntheticFile == Path(<<"A">>, <<"n">>, ".md")
SyntheticDocs(n) == ProcessedDocs(SyntheticFile, n)

FileSets == {S \in SUBSET File : Cardinality(S) <= MaxFiles}
FileLists == UNION {[1..n -> File] : n \in 0..MaxFiles}

\* Nothing is evaluated, searched or chatted.
PureIdle == fn = "none" /\ pin = <<>> /\ pout = <<>>
SearchIdle == vector_store = "none" /\ threads = <<>>
ChatIdle == sessions = <<>> /\ clock = 0 /\ last = <<>> /\ answered = <<>> /\ event = <<>>

InitCommon ==
  /\ PureIdle
  /\ SearchIdle
  /\ ChatIdle
  /\ result = "none"
  /\ fpos = 0
  /\ all_documents = <<>>
  /\ stats = stats0
  /\ total_batches = 0
  /\ attempt = 0
  /\ retry_delay = 0
  /\ offset = 0
  /\ store_bound = FALSE
  /\ index = <<>>
  /\ cvs = "idle"
  /\ log = <<>>

\* run() on a freshly constructed VectorStoreCreator.
InitRun ==
  /\ entry = "run"
  /\ apiKey \in BOOLEAN
  /\ rootExists \in BOOLEAN
  /\ fs \in FileSets
  /\ (~rootExists => fs = {})
  /\ pc = "run"
  /\ files = <<>>
  /\ documents = <<>>
  /\ InitCommon

\* load_all_documents(files) called with any list of files.
InitLoad ==
  /\ entry = "load_all_documents"
  /\ apiKey = TRUE
  /\ rootExists = TRUE
  /\ fs = {}
  /\ pc = "load"
  /\ files \in FileLists
  /\ documents = <<>>
  /\ InitCommon

\* create_vector_store(documents) called with any list of chunks.
InitCVS ==
  /\ entry = "create_vector_store"
  /\ apiKey = TRUE
  /\ rootExists = TRUE
  /\ fs = {}
  /\ pc = "cvs_call"
  /\ files = <<>>
  /\ \E n \in 0..MaxDocs : documents = SyntheticDocs(n)
  /\ InitCommon

Init == InitRun \/ InitLoad \/ InitCVS

\* ------------------------------------------------------------------- run()
\* run(), lines 681-685: the credential is absent.
RunNoKey ==
  /\ pc = "run"
  /\ NoApiKey(apiKey)
  /\ log' = Append(log, Ev("print_no_api_key", 0, -1, 0))
  /\ pc' = "done"
  /\ result' = "returned"
  /\ UNCHANGED <<auxVars, envVars, loadVars, cvsVars>>

\* discover_files, lines 465-504, and run()'s test of its result, 688-692.
RunDiscover ==
  /\ pc = "run"
  /\ ~NoApiKey(apiKey)
  /\ IF ~rootExists
       THEN /\ files' = <<>>
            /\ log' = log \o <<Ev("discover_files", 0, -1, 0),
                               Ev("print_folder_not_found", 0, -1, 0),
                               Ev("print_no_files", 0, -1, 0)>>
            /\ pc' = "done"
            /\ result' = "returned"
       ELSE \E g1 \in Glob(fs, GlobExts[1]), g2 \in Glob(fs, GlobExts[2]),
               g3 \in Glob(fs, GlobExts[3]) :
              LET found == FilterTemp(g1 \o g2 \o g3) IN
              /\ files' = found
              /\ IF NoFiles(found)
                   THEN /\ log' = log \o <<Ev("discover_files", 0, -1, 0),
                                           Ev("print_no_files", 0, -1, 0)>>
                        /\ pc' = "done"
                        /\ result' = "returned"
                   ELSE /\ log' = Append(log, Ev("discover_files", 0, -1, Len(found)))
                        /\ pc' = "load"
                        /\ result' = result
  /\ UNCHANGED <<auxVars, envVars, fpos, all_documents, stats, cvsVars>>

\* load_all_documents, lines 513-548: one iteration of the loop over files.
LoadDocument ==
  /\ pc = "load"
  /\ fpos < Len(files)
  /\ \E outcome \in LoaderOutcomes :
       LET f == files[fpos + 1]
           docs == load_document(f, outcome)
       IN /\ all_documents' = (IF Len(docs) > 0 THEN Extend(all_documents, docs)
                                                ELSE all_documents)
          /\ stats' = (IF Len(docs) > 0
                         THEN UpdateStats(stats, f, FileTags(f, outcome.tables))
                         ELSE stats)
          /\ log' = log \o <<Ev("load_document", 0, -1, fpos + 1),
                             IF f.suffix \in SupportedSuffixes
                               THEN Ev(outcome.kind, 0, -1, outcome.n)
                               ELSE Ev("unsupported", 0, -1, 0),
                             Ev(IF Len(docs) > 0 THEN "print_created_chunks"
                                                 ELSE "print_failed_to_load",
                                0, -1, Len(docs))>>
  /\ fpos' = fpos + 1
  /\ UNCHANGED <<auxVars, envVars, pc, result, files, cvsVars>>

\* load_all_documents, lines 550-555: the loop is over, the list is returned.
LoadAllReturn ==
  /\ pc = "load"
  /\ fpos = Len(files)
  /\ documents' = all_documents
  /\ stats' = [stats EXCEPT !.total_documents = Len(all_documents)]
  /\ log' = Append(log, Ev("print_loaded", 0, -1, Len(all_documents)))
  /\ IF entry = "load_all_documents"
       THEN pc' = "done" /\ result' = "returned"
       ELSE pc' = "loaded" /\ result' = result
  /\ UNCHANGED <<auxVars, envVars, files, fpos, all_documents, total_batches, attempt, retry_delay, offset,
                 store_bound, index, cvs>>

\* run(), lines 695-697: nothing was loaded.
RunNoDocuments ==
  /\ pc = "loaded"
  /\ NoDocuments(documents)
  /\ log' = Append(log, Ev("print_no_documents", 0, -1, 0))
  /\ pc' = "done"
  /\ result' = "returned"
  /\ UNCHANGED <<auxVars, envVars, loadVars, cvsVars>>

\* run(), line 699: create_vector_store is called.
RunCallCVS ==
  /\ pc = "loaded"
  /\ ~NoDocuments(documents)
  /\ pc' = "cvs_call"
  /\ UNCHANGED <<auxVars, envVars, result, loadVars, cvsVars, log>>

\* --------------------------------------------------- create_vector_store()
\* Lines 559-575: header, total_batches, max_retries, retry_delay.
CreateVectorStore ==
  /\ pc = "cvs_call"
  /\ total_batches' = TotalBatches(Len(documents))
  /\ retry_delay' = initial_retry_delay
  /\ attempt' = 0
  /\ cvs' = "running"
  /\ pc' = "first"
  /\ log' = Append(log, Ev("print_header", 0, -1, TotalBatches(Len(documents))))
  /\ UNCHANGED <<auxVars, envVars, result, loadVars, documents, offset, store_bound, index>>

\* Lines 578-586: Chroma.from_documents succeeds for the first batch.
FirstBatchOk ==
  /\ pc = "first"
  /\ LET first_batch == FirstBatch(documents) IN
       /\ index' = index \o first_batch
       /\ log' = log \o <<Ev("request", 1, attempt, Len(first_batch)),
                          Ev("commit", 1, attempt, Len(first_batch)),
                          Ev("print_complete", 1, attempt, Len(first_batch))>>
  /\ store_bound' = TRUE
  /\ offset' = batch_size
  /\ attempt' = 0
  /\ pc' = "rest"
  /\ UNCHANGED <<auxVars, envVars, result, loadVars, documents, total_batches, retry_delay, cvs>>

\* Lines 587-596: Chroma.from_documents raises e for the first batch.
FirstBatchFail ==
  /\ pc = "first"
  /\ \E e \in Exceptions :
       LET req == <<Ev("request", 1, attempt, Len(FirstBatch(documents))),
                    Ev("fail", 1, attempt, Signature(e))>>
       IN IF IsRateLimit(e) /\ CanRetry(attempt)
            THEN /\ log' = log \o req \o <<Ev("print_rate_limit", 0, attempt, retry_delay),
                                           Sleep(1, attempt, retry_delay)>>
                 /\ retry_delay' = NextRetryDelay(retry_delay)
                 /\ IF attempt + 1 < max_retries
                      THEN attempt' = attempt + 1 /\ pc' = "first" /\ offset' = offset
                      ELSE attempt' = 0 /\ pc' = "rest" /\ offset' = batch_size
                 /\ UNCHANGED <<cvs, result>>
            ELSE /\ log' = log \o req \o <<Ev("raise", 1, attempt, Signature(e))>>
                 /\ cvs' = "raised"
                 /\ result' = "raised"
                 /\ pc' = "done"
                 /\ UNCHANGED <<retry_delay, attempt, offset>>
  /\ UNCHANGED <<auxVars, envVars, loadVars, documents, total_batches, store_bound, index>>

\* Lines 599-611: vector_store.add_documents succeeds for a later batch.
LaterBatchOk ==
  /\ pc = "rest"
  /\ offset < Len(documents)
  /\ store_bound
  /\ LET batch == Batch(documents, offset)
         batch_num == BatchNum(offset)
     IN /\ index' = index \o batch
        /\ log' = log \o <<Ev("request", batch_num, attempt, Len(batch)),
                           Ev("commit", batch_num, attempt, Len(batch)),
                           Ev("print_complete", batch_num, attempt, Len(batch))>>
                      \o (IF NeedsPause(batch_num, total_batches)
                            THEN <<Pause(batch_num)>> ELSE <<>>)
  /\ offset' = NextOffset(offset)
  /\ attempt' = 0
  /\ UNCHANGED <<auxVars, envVars, pc, result, loadVars, documents, total_batches, retry_delay,
                 store_bound, cvs>>

\* Lines 613-624: vector_store.add_documents raises e for a later batch.
LaterBatchFail ==
  /\ pc = "rest"
  /\ offset < Len(documents)
  /\ \E x \in Exceptions :
       LET e == IF store_bound THEN x ELSE UnboundError
           batch == Batch(documents, offset)
           batch_num == BatchNum(offset)
           req == <<Ev("request", batch_num, attempt, Len(batch)),
                    Ev("fail", batch_num, attempt, Signature(e))>>
       IN IF IsRateLimit(e)
            THEN IF CanRetry(attempt)
                   THEN /\ log' = log \o req
                                   \o <<Ev("print_rate_limit", batch_num, attempt,
                                           WaitTime(retry_delay, attempt)),
                                        Sleep(batch_num, attempt,
                                              WaitTime(retry_delay, attempt))>>
                        /\ IF attempt + 1 < max_retries
                             THEN attempt' = attempt + 1 /\ offset' = offset
                             ELSE attempt' = 0 /\ offset' = NextOffset(offset)
                        /\ UNCHANGED <<cvs, result, pc>>
                   ELSE /\ log' = log \o req
                                   \o <<Ev("print_failed_batch", batch_num, attempt, 0),
                                        Ev("raise", batch_num, attempt, Signature(e))>>
                        /\ cvs' = "raised"
                        /\ result' = "raised"
                        /\ pc' = "done"
                        /\ UNCHANGED <<attempt, offset>>
            ELSE /\ log' = log \o req
                            \o <<Ev("print_error_batch", batch_num, attempt, 0),
                                 Ev("raise", batch_num, attempt, Signature(e))>>
                 /\ cvs' = "raised"
                 /\ result' = "raised"
                 /\ pc' = "done"
                 /\ UNCHANGED <<attempt, offset>>
  /\ UNCHANGED <<auxVars, envVars, loadVars, documents, total_batches, retry_delay, store_bound,
                 index>>

\* Lines 626-629: the loops are over, the collection is counted and returned.
CVSReturn ==
  /\ pc = "rest"
  /\ offset >= Len(documents)
  /\ IF store_bound
       THEN /\ log' = Append(log, Ev("print_created", 0, -1, Len(index)))
            /\ cvs' = "returned"
            /\ IF entry = "run"
                 THEN pc' = "stats" /\ result' = result
                 ELSE pc' = "done" /\ result' = "returned"
       ELSE /\ log' = Append(log, Ev("raise", 0, -1, Signature(UnboundError)))
            /\ cvs' = "raised"
            /\ result' = "raised"
            /\ pc' = "done"
  /\ UNCHANGED <<auxVars, envVars, loadVars, documents, total_batches, attempt, retry_delay,
                 offset, store_bound, index>>

\* run(), lines 700-708: statistics and the success banner.
RunFinish ==
  /\ pc = "stats"
  /\ log' = Append(log, Ev("print_statistics", 0, -1, 0))
  /\ pc' = "done"
  /\ result' = "returned"
  /\ UNCHANGED <<auxVars, envVars, loadVars, cvsVars>>

\* ----------------------------------------------------------- specification
Next ==
  \/ RunNoKey
  \/ RunDiscover
  \/ LoadDocument
  \/ LoadAllReturn
  \/ RunNoDocuments
  \/ RunCallCVS
  \/ CreateVectorStore
  \/ FirstBatchOk
  \/ FirstBatchFail
  \/ LaterBatchOk
  \/ LaterBatchFail
  \/ CVSReturn
  \/ RunFinish

Spec == Init /\ [][Next]_vars

\* ------------------------------------------------------------- type sanity
TypeOK ==
  /\ entry \in {"run", "load_all_documents", "create_vector_store"}
  /\ pc \in {"run", "load", "loaded", "cvs_call", "first", "rest", "stats", "done"}
  /\ result \in {"none", "returned", "raised"}
  /\ cvs \in {"idle", "running", "returned", "raised"}
  /\ attempt \in 0..(max_retries - 1)
  /\ Len(index) <= Len(documents)

\* ----------------------------------------------------- reading the history
Pos == DOMAIN log

IsRequest(k) == log[k].op = "request"
IsCommit(k) == log[k].op = "commit"
IsRaise(k) == log[k].op = "raise"

\* a request failed; arg 1: with the rate-limit signature, arg 0: without
IsFail(k) == log[k].op = "fail"
IsRateLimitFail(k) == IsFail(k) /\ log[k].arg = 1
IsOtherFail(k) == IsFail(k) /\ log[k].arg = 0

\* a sleep of the retry path (the pause between batches has att = -1)
IsRetryWait(k) == log[k].op = "sleep" /\ log[k].att >= 0
IsPause(k) == log[k].op = "sleep" /\ log[k].arg = PauseMs

\* printed lines that carry a batch number
IsBatchLine(k) ==
  /\ log[k].op \in {"print_complete", "print_rate_limit", "print_failed_batch",
                    "print_error_batch"}
  /\ log[k].batch > 0

RequestsOf(b) == {k \in Pos : IsRequest(k) /\ log[k].batch = b}
BatchNumbers == 1..(MaxDocs \div batch_size + 2)

\* the batch whose failure ended the call
FailedBatch == log[Len(log)].batch

\* ---------------------------------------------------------------------- C1
\* C1: when every batch succeeds within the attempt cap and all earlier
\* failures are rate-limit errors, create_vector_store returns and the index
\* holds every input chunk exactly once, in input order.  Stated as: a
\* returned call left index = documents, and a call only raises after a
\* failure without the rate-limit signature or a failure of the last
\* allowed attempt.
C1_AllChunksPersisted ==
  /\ cvs = "returned" => index = documents
  /\ cvs = "raised" =>
       \E k \in Pos : IsOtherFail(k) \/ (IsFail(k) /\ log[k].att = max_retries - 1)

\* batch 2 failed its first attempt with a rate-limit error, then succeeded
C1_Witness ==
  /\ cvs = "returned"
  /\ index = documents
  /\ Len(documents) > batch_size
  /\ \E k \in Pos : IsRateLimitFail(k) /\ log[k].batch = 2 /\ log[k].att = 0
  /\ \E k \in Pos : IsCommit(k) /\ log[k].batch = 2 /\ log[k].att = 1

\* ---------------------------------------------------------------------- C2
\* C2: a batch is requested at most max_retries times; a rate-limit failure
\* before the last attempt is followed by a wait and no raise; within one
\* batch each wait is twice the previous one; a rate-limit failure of the
\* last attempt raises and no request follows it.
C2_RetryCapAndBackoff ==
  /\ \A b \in BatchNumbers : Cardinality(RequestsOf(b)) <= max_retries
  /\ \A k \in Pos : IsRequest(k) => log[k].att \in 0..(max_retries - 1)
  /\ \A k \in Pos :
       (IsRateLimitFail(k) /\ log[k].att < max_retries - 1) =>
         /\ k + 2 \in Pos
         /\ log[k + 1].op = "print_rate_limit"
         /\ IsRetryWait(k + 2)
         /\ log[k + 2].batch = log[k].batch
         /\ log[k + 2].arg > 0
  /\ \A k, m \in Pos :
       (/\ IsRetryWait(k) /\ IsRetryWait(m)
        /\ log[k].batch = log[m].batch
        /\ log[m].att = log[k].att + 1) =>
         /\ k < m
         /\ log[m].arg = 2 * log[k].arg
         /\ log[m].arg > log[k].arg
  /\ \A k \in Pos :
       (IsRateLimitFail(k) /\ log[k].att = max_retries - 1) =>
         /\ cvs = "raised"
         /\ result = "raised"
         /\ IsRaise(Len(log))
         /\ \A m \in Pos : m > k => ~IsRequest(m) /\ log[m].op # "sleep"

\* a later batch used up its three attempts on rate-limit errors
C2_Witness ==
  /\ cvs = "raised"
  /\ FailedBatch = 2
  /\ Cardinality(RequestsOf(2)) = max_retries
  /\ \E k \in Pos : IsRateLimitFail(k) /\ log[k].batch = 2 /\ log[k].att = max_retries - 1
  /\ \E k \in Pos : IsRetryWait(k) /\ log[k].batch = 2 /\ log[k].att = 1

\* ---------------------------------------------------------------------- C3
\* C3: a failure without the rate-limit signature is fatal at once, on any
\* attempt of any batch: nothing but the error line and the raise follow
\* it, so there is no retry, no sleep and no later batch.
C3_OtherErrorsFatal ==
  \A k \in Pos :
    IsOtherFail(k) =>
      /\ cvs = "raised"
      /\ result = "raised"
      /\ IsRaise(Len(log))
      /\ FailedBatch = log[k].batch
      /\ \A m \in Pos : m > k => log[m].op \in {"print_error_batch", "raise"}

\* a later batch fails on its second attempt with an error that is no rate limit
C3_Witness ==
  /\ cvs = "raised"
  /\ \E k \in Pos : IsOtherFail(k) /\ log[k].batch = 2 /\ log[k].att = 1
  /\ Len(index) = batch_size

\* ---------------------------------------------------------------------- C4
\* C4: batch b+1 is first requested only after batch b was committed, the
\* commits are batches 1, 2, 3, ... in that order, the index is at every
\* moment the chunks of the committed batches, and when the call aborts at
\* batch j the index is exactly the chunks of batches 1..j-1.
CommitPositions == {k \in Pos : IsCommit(k)}

C4_CommitsInOrder ==
  /\ \A q \in Pos :
       (IsRequest(q) /\ log[q].batch > 1) =>
         \E p \in Pos : p < q /\ IsCommit(p) /\ log[p].batch = log[q].batch - 1
  /\ \A p \in CommitPositions :
       log[p].batch = Cardinality({q \in CommitPositions : q <= p})
  /\ index = SubSeq(documents, 1,
                    Min(Cardinality(CommitPositions) * batch_size, Len(documents)))
  /\ cvs = "raised" =>
       /\ FailedBatch >= 1
       /\ index = SubSeq(documents, 1, (FailedBatch - 1) * batch_size)

\* the call aborted at batch 3 and batches 1 and 2 are in the index
C4_Witness ==
  /\ cvs = "raised"
  /\ FailedBatch = 3
  /\ Len(index) = 2 * batch_size
  /\ Len(documents) > 2 * batch_size

\* ---------------------------------------------------------------------- C5
\* C5: after every committed batch that is not the last one, the first
\* batch included, a sleep of the fixed pause length happens before the
\* first request of the next batch.
C5_PauseAfterEveryBatch ==
  \A p, q \in Pos :
    (/\ IsCommit(p)
     /\ log[p].batch < total_batches
     /\ p < q
     /\ IsRequest(q)
     /\ log[q].batch = log[p].batch + 1) =>
       \E m \in Pos : p < m /\ m < q /\ IsPause(m)

\* ---------------------------------------------------------------------- C6
\* C6: whatever the earlier batches needed, the waits of a later batch
\* before its 2nd and 3rd attempt are the base delay and twice the base
\* delay, as for the first batch.
C6_SameBackoffForLaterBatches ==
  \A k \in Pos :
    (IsRetryWait(k) /\ log[k].batch > 1) =>
      log[k].arg = initial_retry_delay * Pow2(log[k].att) * 1000

\* ---------------------------------------------------------------------- C7
\* C7: when an exception propagates out of create_vector_store, a line
\* naming the failing batch has been printed before.
C7_FailureNamesBatch ==
  cvs = "raised" =>
    \E k \in Pos : IsBatchLine(k) /\ log[k].batch = FailedBatch

\* ---------------------------------------------------------------------- C8
\* C8: run() without credential, without content root, with no discovered
\* file or with no loaded chunk ends by returning; create_vector_store is
\* never called, no request is issued and the index is untouched; without
\* credential nothing is discovered or loaded either.
Logged(op) == \E k \in Pos : log[k].op = op

EarlyExitCase ==
  \/ NoApiKey(apiKey)
  \/ ~rootExists
  \/ (Logged("discover_files") /\ Len(files) = 0)
  \/ (Logged("print_loaded") /\ Len(documents) = 0)

C8_EarlyExit ==
  (entry = "run" /\ EarlyExitCase) =>
    /\ cvs = "idle"
    /\ result # "raised"
    /\ index = <<>>
    /\ pc \in {"run", "load", "loaded", "done"}
    /\ \A k \in Pos : ~IsRequest(k) /\ ~IsCommit(k) /\ log[k].op # "print_header"
    /\ pc = "done" => result = "returned"
    /\ (Logged("discover_files") /\ Len(files) = 0) => pc = "done"
    /\ NoApiKey(apiKey) =>
         /\ ~Logged("discover_files")
         /\ ~Logged("load_document")
         /\ files = <<>>
         /\ pc \in {"run", "done"}

\* files were discovered, none of them yielded a chunk, and run() returned
C8_Witness ==
  /\ entry = "run"
  /\ pc = "done"
  /\ result = "returned"
  /\ Len(files) = MaxFiles
  /\ Logged("loader_raise")
  /\ Logged("print_no_documents")
  /\ cvs = "idle"

\* ---------------------------------------------------------------------- C9
\* C9: load_all_documents handles every file, in list order, whatever the
\* loaders do; it never raises; the list it returns is the chunks of the
\* files whose loading produced chunks, in file order, and nothing else.
LoadPositions == {k \in Pos : log[k].op = "load_document"}

\* the loader's answer for the file handled at log position k
AnswerOf(k) == log[k + 1]

\* chunks expected from the first n files, given the loaders' answers
RECURSIVE ExpectedDocs(_)
ExpectedDocs(n) ==
  IF n = 0 THEN <<>>
  ELSE LET k == CHOOSE p \in LoadPositions : log[p].arg = n
           f == files[n]
       IN ExpectedDocs(n - 1) \o
            (IF AnswerOf(k).op = "loader_chunks"
               THEN [c \in 1..AnswerOf(k).arg |->
                       [source_file |-> Name(f), file_path |-> f,
                        chunk_index |-> c - 1, total_chunks |-> AnswerOf(k).arg]]
               ELSE <<>>)

C9_PerFileFailureSkipped ==
  /\ cvs = "idle" => result # "raised"
  /\ Cardinality(LoadPositions) = fpos
  /\ \A k \in LoadPositions :
       log[k].arg = Cardinality({m \in LoadPositions : m <= k})
  /\ all_documents = ExpectedDocs(fpos)
  /\ Logged("print_loaded") =>
       /\ fpos = Len(files)
       /\ documents = ExpectedDocs(Len(files))

\* the first file's loader raised, the second file was still loaded
C9_Witness ==
  /\ Logged("print_loaded")
  /\ Len(files) = 2
  /\ \E k \in LoadPositions : log[k].arg = 1 /\ AnswerOf(k).op = "loader_raise"
  /\ \E k \in LoadPositions : log[k].arg = 2 /\ AnswerOf(k).op = "loader_chunks"
  /\ Len(documents) > 0
  /\ documents[1].file_path = files[2]

\* --------------------------------------------------------------------- C10
\* C10: after an ingestion run every record of the index has a source_file,
\* and no two records with the same source_file share a chunk_index.
C10_ChunkIndexUniquePerSourceFile ==
  (entry = "run" /\ cvs = "returned") =>
    /\ \A a \in DOMAIN index : Len(index[a].source_file) > 0
    /\ \A a, b \in DOMAIN index :
         (a # b /\ index[a].source_file = index[b].source_file) =>
           index[a].chunk_index # index[b].chunk_index

\* --------------------------------------------------------------------- C18
\* C18: the input is cut into consecutive batches of batch_size chunks:
\* the reported total is ceil(len / batch_size), every requested batch is
\* non-empty and is one of the batches 1..total, every batch but the last
\* has exactly batch_size chunks, and a returned call has committed each
\* batch once, in input order.
RequestPositions == {k \in Pos : IsRequest(k)}

C18_BatchesPartitionInput ==
  cvs # "idle" =>
    /\ total_batches * batch_size >= Len(documents)
    /\ (total_batches - 1) * batch_size < Len(documents)
    /\ \A k \in RequestPositions :
         /\ log[k].arg > 0
         /\ log[k].batch \in 1..total_batches
         /\ log[k].batch < total_batches => log[k].arg = batch_size
    /\ cvs = "returned" =>
         /\ Cardinality(CommitPositions) = total_batches
         /\ index = documents

\* the same statement for a list that is not empty: it holds
C18_NonEmptyInputPartitioned == Len(documents) > 0 => C18_BatchesPartitionInput

\* --------------------------------------------------------------------- C20
\* C20: whatever the provider answers, the number of embedding requests is
\* at most max_retries times the number of batches.
C20_RequestsBounded ==
  cvs # "idle" => Cardinality(RequestPositions) <= max_retries * total_batches

\* the same bound for a list that is not empty: it holds
C20_NonEmptyRequestsBounded == Len(documents) > 0 => C20_RequestsBounded

\* The call ends: with a scheduler that keeps running the program, every
\* behaviour reaches the end of the entry call, by return or by raise.
FairSpec == Spec /\ WF_vars(Next)
C20_Terminates == <>(pc = "done" /\ result \in {"returned", "raised"})

\* --------------------------------------------------------------- statistics
\* load_all_documents(files) on a freshly constructed VectorStoreCreator, the
\* files drawn from every category.
InitStats ==
  /\ entry = "load_all_documents"
  /\ apiKey = TRUE
  /\ rootExists = TRUE
  /\ fs = {}
  /\ pc = "load"
  /\ files \in StatLists
  /\ documents = <<>>
  /\ InitCommon

NextStats == LoadDocument \/ LoadAllReturn

SpecStats == InitStats /\ [][NextStats]_vars

\* sum(d.values())
RECURSIVE Sum(_)
Sum(d) ==
  IF DOMAIN d = {} THEN 0
  ELSE LET key == CHOOSE x \in DOMAIN d : TRUE
       IN d[key] + Sum([x \in DOMAIN d \ {key} |-> d[x]])

\* files handled so far whose content was split into at least one chunk
FilesWithChunks == {k \in Pos : log[k].op = "loader_chunks" /\ log[k].arg >= 1}

\* load_all_documents has returned its list
LoadReturned == entry = "load_all_documents" /\ pc = "done" /\ result = "returned"

\* C21: after load_all_documents has processed a list of files, total_files is
\* the number of files that produced at least one chunk, the counts of
\* by_format and of by_category each sum to total_files, the counts of
\* by_session sum to at most total_files, files_with_tables is at most
\* total_files, and total_documents is the number of chunks returned.
C21_StatsConsistent ==
  LoadReturned =>
    /\ stats.total_files = Cardinality(FilesWithChunks)
    /\ Sum(stats.by_format) = stats.total_files
    /\ Sum(stats.by_category) = stats.total_files
    /\ Sum(stats.by_session) <= stats.total_files
    /\ stats.files_with_tables <= stats.total_files
    /\ stats.total_documents = Len(documents)

\* Two files of one format produced chunks, one of them with tables, in two
\* categories, one file with a session number, one without.
C21_Witness ==
  /\ LoadReturned
  /\ stats.total_files = 2
  /\ \E fmt \in DOMAIN stats.by_format : stats.by_format[fmt] = 2
  /\ Cardinality(DOMAIN stats.by_category) = 2
  /\ Sum(stats.by_session) = 1
  /\ stats.files_with_tables = 1
  /\ stats.total_documents = Len(documents)
  /\ Len(documents) > 2

\* ================================================= the metadata extractors
\* No ingestion is running.
PipelineIdle ==
  /\ entry = "none"
  /\ apiKey = TRUE
  /\ rootExists = TRUE
  /\ fs = {}
  /\ pc = "done"
  /\ result = "none"
  /\ files = <<>>
  /\ fpos = 0
  /\ all_documents = <<>>
  /\ stats = stats0
  /\ documents = <<>>
  /\ total_batches = 0
  /\ attempt = 0
  /\ retry_delay = 0
  /\ offset = 0
  /\ store_bound = FALSE
  /\ cvs = "idle"
  /\ log = <<>>

pipelineVars == <<envVars, pc, result, loadVars, cvsVars, log>>

\* A call of one extractor with one argument; pout is <<>> until it returns
\* and <<value>> afterwards.
InitSessionNumber == fn = "extract_session_number" /\ pin \in PathInputs
InitContentType == fn = "get_content_type" /\ pin \in PathInputs
InitYoutubeUrls == fn = "extract_youtube_urls" /\ pin \in TextInputs

ExtractSessionNumber ==
  /\ fn = "extract_session_number"
  /\ pout = <<>>
  /\ pout' = <<extract_session_number(pin)>>
  /\ UNCHANGED <<fn, pin, pipelineVars, searchVars, chatVars>>

GetContentType ==
  /\ fn = "get_content_type"
  /\ pout = <<>>
  /\ pout' = <<get_content_type(pin)>>
  /\ UNCHANGED <<fn, pin, pipelineVars, searchVars, chatVars>>

ExtractYoutubeUrls ==
  /\ fn = "extract_youtube_urls"
  /\ pout = <<>>
  /\ \E urls \in extract_youtube_urls(pin) : pout' = <<urls>>
  /\ UNCHANGED <<fn, pin, pipelineVars, searchVars, chatVars>>

ExtractSectionInfo ==
  /\ fn = "extract_section_info"
  /\ pout = <<>>
  /\ \E text \in {TextOf(pin)}, chunk \in {ChunkOf(pin)} :
       pout' = <<extract_section_info(text, chunk)>>
  /\ UNCHANGED <<fn, pin, pipelineVars, searchVars, chatVars>>

InitSection ==
  /\ PipelineIdle
  /\ index = <<>>
  /\ SearchIdle
  /\ ChatIdle
  /\ pout = <<>>
  /\ fn = "extract_section_info"
  /\ pin \in SectionInputs

SpecSection == InitSection /\ [][ExtractSectionInfo]_vars

\* load_document from the detection of tables to the chunks: the marked
\* text and the chunks the table-aware splitter cuts it into
SplitDocument ==
  /\ fn = "split_document"
  /\ pout = <<>>
  /\ detect_tables_in_content(pin)
  /\ LET full_content == mark_table_boundaries(pin)
     IN pout' = <<[full_content |-> full_content, chunks |-> split_text(full_content)]>>
  /\ UNCHANGED <<fn, pin, pipelineVars, searchVars, chatVars>>

InitSplit ==
  /\ PipelineIdle
  /\ index = <<>>
  /\ SearchIdle
  /\ ChatIdle
  /\ pout = <<>>
  /\ fn = "split_document"
  /\ pin \in DocInputs

SpecSplit == InitSplit /\ [][SplitDocument]_vars

\* load_document up to the metadata of the chunks, lines 327-387
TagChunks ==
  /\ fn = "load_document"
  /\ pout = <<>>
  /\ \E has_tables \in BOOLEAN : pout' = <<FileTags(pin, has_tables)>>
  /\ UNCHANGED <<fn, pin, pipelineVars, searchVars, chatVars>>

InitTags ==
  /\ PipelineIdle
  /\ index = <<>>
  /\ SearchIdle
  /\ ChatIdle
  /\ pout = <<>>
  /\ fn = "load_document"
  /\ pin \in TagFiles

SpecTags == InitTags /\ [][TagChunks]_vars

\* load_document, lines 327-334 and 404-405: the flag, the marked content,
\* the splitter chosen and the banner line of the chunks
MarkTables ==
  /\ fn = "mark_tables"
  /\ pout = <<>>
  /\ \E has_tables \in {detect_tables_in_content(pin)} :
       pout' = <<[has_tables |-> has_tables,
                  full_content |-> IF has_tables THEN mark_table_boundaries(pin) ELSE pin,
                  splitter |-> IF has_tables THEN "table_aware_splitter" ELSE "text_splitter",
                  banner |-> has_tables]>>
  /\ UNCHANGED <<fn, pin, pipelineVars, searchVars, chatVars>>

InitTables ==
  /\ PipelineIdle
  /\ index = <<>>
  /\ SearchIdle
  /\ ChatIdle
  /\ pout = <<>>
  /\ fn = "mark_tables"
  /\ pin \in UNION {[1..n -> DocLines] : n \in 1..MaxDocLines}

SpecTables == InitTables /\ [][MarkTables]_vars

InitPure ==
  /\ PipelineIdle
  /\ index = <<>>
  /\ SearchIdle
  /\ ChatIdle
  /\ pout = <<>>
  /\ \/ InitSessionNumber
     \/ InitContentType
     \/ InitYoutubeUrls

NextPure ==
  \/ ExtractSessionNumber
  \/ GetContentType
  \/ ExtractYoutubeUrls

SpecPure == InitPure /\ [][NextPure]_vars

Returned(f) == fn = f /\ pout # <<>>

\* ======================================================= VectorStoreLoader
\* Callers run search on one loader over a built index. vector_store is
\* self.vector_store: "none" or the name of the caller whose load() made the
\* object ("built" : loaded before the calls began).
InitSearch ==
  /\ PipelineIdle
  /\ PureIdle
  /\ ChatIdle
  /\ index \in Collections
  /\ vector_store \in {"none", "built"}
  /\ \E cs \in (SUBSET Callers) \ {{}} : threads \in [cs -> Calls]

\* if not self.vector_store:
CheckLoaded(t) ==
  /\ threads[t].pc = "check"
  /\ threads' = [threads EXCEPT ![t].pc = IF NeedsLoad(vector_store) THEN "load" ELSE "query"]
  /\ UNCHANGED <<vector_store, pipelineVars, pureVars, chatVars>>

\* load() : self.vector_store = Chroma(persist_directory=..., ...)
Load(t) ==
  /\ threads[t].pc = "load"
  /\ vector_store' = t
  /\ threads' = [threads EXCEPT ![t].pc = "count", ![t].loaded = TRUE]
  /\ UNCHANGED <<pipelineVars, pureVars, chatVars>>

\* load() : count = self.vector_store._collection.count(); return
Count(t) ==
  /\ threads[t].pc = "count"
  /\ threads' = [threads EXCEPT ![t].pc = "query"]
  /\ UNCHANGED <<vector_store, pipelineVars, pureVars, chatVars>>

\* return self.vector_store.similarity_search(...)
Query(t) ==
  /\ threads[t].pc = "query"
  /\ threads' = [threads EXCEPT
       ![t].pc = "done",
       ![t].result = SearchStore(index, vector_store, threads[t].query, threads[t].k,
                                 FilterOf(threads[t]))]
  /\ UNCHANGED <<vector_store, pipelineVars, pureVars, chatVars>>

NextSearch ==
  \E t \in DOMAIN threads :
    \/ CheckLoaded(t)
    \/ Load(t)
    \/ Count(t)
    \/ Query(t)

SpecSearch == InitSearch /\ [][NextSearch]_vars

\* the calls that have returned
Done == {t \in DOMAIN threads : threads[t].pc = "done"}

\* the records of the index that satisfy the filter of the call
Population(call) == {i \in DOMAIN index : Satisfies(index[i], FilterOf(call))}

\* --------------------------------------------------------------------- C12
\* C12: a search returns without error at most k records, each of which
\* equals the filter on every filter key; it returns k of them when k
\* match and all that match when fewer do; search_by_session returns only
\* records of its session, also when other records are nearer.
C12_FilteredAtMostK ==
  \A t \in Done :
    LET call == threads[t]
        hits == call.result.hits
    IN /\ call.result.ok
       /\ Len(hits) <= call.k
       /\ \A a \in DOMAIN hits : hits[a] \in Population(call)
       /\ \A a, b \in DOMAIN hits : a # b => hits[a] # hits[b]
       /\ Len(hits) = Min(call.k, Cardinality(Population(call)))
       /\ call.op = "search" =>
            \A a \in DOMAIN hits : \A item \in call.filter_dict : index[hits[a]][item[1]] = item[2]
       /\ call.op = "search_by_session" =>
            \A a \in DOMAIN hits : index[hits[a]].session_number = call.session_number

\* search_by_session for session 2 with k = 2 returns one record, the only
\* one of session 2, although a record of session 1 is nearer to the query
C12_Witness ==
  \E t \in Done :
    /\ threads[t].op = "search_by_session"
    /\ threads[t].session_number = 2
    /\ threads[t].k = 2
    /\ threads[t].result.ok
    /\ Len(threads[t].result.hits) = 1
    /\ \E i \in DOMAIN index :
         /\ index[i].session_number = 1
         /\ Distance(threads[t].query, i) < Distance(threads[t].query, threads[t].result.hits[1])

\* --------------------------------------------------------------------- C13
\* what the call returns when it runs alone: the nearest k records of the
\* index that satisfy its filter
AloneResult(call) ==
  Returns(NearestFirst(index, call.query, call.k, Population(call)))

\* C13: under every interleaving of the callers no step of a search changes
\* the records of the index, and every call returns what it returns alone.
C13_ConcurrentSearchSafe ==
  /\ [][index' = index]_vars
  /\ [](\A t \in Done : threads[t].result = AloneResult(threads[t]))

\* two callers found the loader not loaded, both ran load(), both returned
C13_Witness ==
  /\ DOMAIN threads = Callers
  /\ \A t \in Callers : threads[t].pc = "done" /\ threads[t].loaded /\ threads[t].result.ok
  /\ index # <<>>

\* ================================================================ chat app
\* Two browser sessions of the chat page with one cached rag_system. last is
\* <<>> or <<the latest call of ask_stream>>.
InitChat ==
  /\ PipelineIdle
  /\ index = <<>>
  /\ PureIdle
  /\ SearchIdle
  /\ sessions \in [Sessions -> {SessionState(<<>>), SessionState(FullHistory)}]
  /\ clock = 1
  /\ last = <<>>
  /\ answered = [s \in Sessions |-> sessions[s].conversation_history]
  /\ event = <<>>

\* what happened last: a form submission (op is the button) or the end of a
\* stream (op is "answered" or "failed")
Event(s, op, text) == <<[session |-> s, op |-> op, text |-> text]>>

\* the form handler's first branch and process_message up to the call
\* rag_system.ask_stream(user_input, st.session_state.conversation_history)
ProcessMessage(s, button, user_input) ==
  /\ sessions[s].pc = "idle"
  /\ Sends(button = "send", user_input)
  /\ Len(sessions[s].messages) < 2 * MaxTurns
  /\ sessions' = [sessions EXCEPT
       ![s].messages = Append(@, Message("user", user_input)),
       ![s].user_input = user_input,
       ![s].pc = "asking"]
  /\ last' = <<[session |-> s, question |-> user_input, history |-> HistoryOf(sessions, s)]>>
  /\ event' = Event(s, button, user_input)
  /\ UNCHANGED <<clock, answered, pipelineVars, pureVars, searchVars>>

\* the stream ends: the exchange is added to the history of the session,
\* the history is cut to its last 10 entries, the answer is shown
StreamEnds(s, chunks) ==
  /\ sessions[s].pc = "asking"
  /\ clock < MaxClock
  /\ \E exchange \in {HistoryEntry(sessions[s].user_input, FullResponse(chunks), clock)} :
       /\ sessions' = [sessions EXCEPT
            ![s].conversation_history = Trim(Append(@, exchange)),
            ![s].messages = Append(@, Message("assistant", FullResponse(chunks))),
            ![s].user_input = "",
            ![s].pc = "idle"]
       /\ answered' = [answered EXCEPT ![s] = Append(@, exchange)]
  /\ clock' = clock + 1
  /\ event' = Event(s, "answered", "")
  /\ UNCHANGED <<last, pipelineVars, pureVars, searchVars>>

\* ask_stream raises e after it has yielded the first n chunks: the error
\* is shown, the history stays as it is
StreamRaises(s, chunks, n, e) ==
  /\ sessions[s].pc = "asking"
  /\ sessions' = [sessions EXCEPT
       ![s].messages = Append(@, Message("assistant",
                          ShownOnError(FullResponse(SubSeq(chunks, 1, n)), ErrorMessage(e)))),
       ![s].user_input = "",
       ![s].pc = "idle"]
  /\ event' = Event(s, "failed", "")
  /\ UNCHANGED <<clock, last, answered, pipelineVars, pureVars, searchVars>>

\* Clear Chat
ClearChat(s, user_input) ==
  /\ sessions[s].pc = "idle"
  /\ ~Sends(FALSE, user_input)
  /\ sessions' = [sessions EXCEPT ![s].messages = <<>>]
  /\ event' = Event(s, "clear_chat", user_input)
  /\ UNCHANGED <<clock, last, answered, pipelineVars, pureVars, searchVars>>

\* Clear Memory
ClearMemory(s, user_input) ==
  /\ sessions[s].pc = "idle"
  /\ ~Sends(FALSE, user_input)
  /\ sessions' = [sessions EXCEPT ![s].conversation_history = <<>>, ![s].messages = <<>>]
  /\ answered' = [answered EXCEPT ![s] = <<>>]
  /\ event' = Event(s, "clear_memory", user_input)
  /\ UNCHANGED <<clock, last, pipelineVars, pureVars, searchVars>>

NextChat ==
  \E s \in Sessions :
    \/ \E button \in Buttons, user_input \in FormInputs : ProcessMessage(s, button, user_input)
    \/ \E chunks \in Streams : StreamEnds(s, chunks)
    \/ \E chunks \in Streams, e \in StreamErrors :
         \E n \in 0..Len(chunks) : StreamRaises(s, chunks, n, e)
    \/ \E user_input \in FormInputs : ClearChat(s, user_input)
    \/ \E user_input \in FormInputs : ClearMemory(s, user_input)

SpecChat == InitChat /\ [][NextChat]_vars

\* --------------------------------------------------------------------- C14
\* what of a session the claim speaks of
Visible(ss, s) == <<ss[s].messages, ss[s].conversation_history>>

\* the step calls ask_stream
CallsAskStream == last' # last \/ \E s \in Sessions : sessions[s].pc = "idle" /\ sessions'[s].pc = "asking"

\* C14: a step of one session (process_message, Clear Chat, Clear Memory)
\* leaves the messages and the conversation history of every other session
\* as they are, and the history handed to ask_stream is the one of the
\* session that calls.
C14_HistoryPerSession ==
  [][/\ \A s, u \in Sessions :
          (s # u /\ sessions'[s] # sessions[s]) => Visible(sessions', u) = Visible(sessions, u)
     /\ CallsAskStream =>
          /\ last' # <<>>
          /\ sessions[last'[1].session].pc = "idle"
          /\ sessions'[last'[1].session].pc = "asking"
          /\ last'[1].history = sessions[last'[1].session].conversation_history]_vars

\* s2 asks with its own history of one exchange while s1, whose history was
\* full, has cleared its memory
C14_Witness ==
  /\ last # <<>>
  /\ last[1].session = "s2"
  /\ Len(last[1].history) = 1
  /\ sessions["s2"].pc = "asking"
  /\ sessions["s1"].conversation_history = <<>>
  /\ sessions["s1"].messages = <<>>
  /\ clock > 1

\* --------------------------------------------------------------------- C22
\* the last n elements of seq, in their order
MostRecent(seq, n) ==
  LET m == Min(n, Len(seq)) IN [i \in 1..m |-> seq[Len(seq) - m + i]]

\* C22: in every reachable state of a chat session, conversation_history has
\* at most 10 entries, and they are the most recent exchanges that were
\* answered since the last Clear Memory, in the order they happened.
C22_HistoryIsRecentWindow ==
  \A s \in Sessions :
    /\ Len(sessions[s].conversation_history) <= HistoryLimit
    /\ sessions[s].conversation_history = MostRecent(answered[s], HistoryLimit)

\* an eleventh exchange has been answered: the oldest one is gone, the new
\* one is the last entry
C22_Witness ==
  \E s \in Sessions :
    /\ Len(answered[s]) = HistoryLimit + 1
    /\ Len(sessions[s].conversation_history) = HistoryLimit
    /\ sessions[s].conversation_history[HistoryLimit].question \in Inputs
    /\ sessions[s].conversation_history[HistoryLimit].timestamp >= 1

\* --------------------------------------------------------------------- C23
\* the step is the end of process_message in session s
EndsCall(s) == sessions[s].pc = "asking" /\ sessions'[s].pc = "idle"

\* the step is the end of process_message in session s after ask_stream raised
FailsCall(s) == EndsCall(s) /\ event' = Event(s, "failed", "")

LastOf(seq) == seq[Len(seq)]

\* C23: when ask_stream raises, before or after it yielded chunks, the
\* conversation history stays as it is and messages gains the user message
\* followed by one assistant message that carries the error text; every call
\* of process_message appends two messages, the user's and the assistant's.
C23_FailureKeepsHistory ==
  [][\A s \in Sessions :
       /\ FailsCall(s) =>
            /\ sessions'[s].conversation_history = sessions[s].conversation_history
            /\ answered' = answered
            /\ \E e \in StreamErrors :
                 sessions'[s].messages =
                   Append(sessions[s].messages, Message("assistant", ErrorMessage(e)))
       /\ EndsCall(s) =>
            /\ Len(sessions'[s].messages) = Len(sessions[s].messages) + 1
            /\ LastOf(sessions'[s].messages).role = "assistant"
            /\ LastOf(sessions[s].messages) = Message("user", sessions[s].user_input)
       /\ (sessions[s].pc = "idle" /\ sessions'[s].pc = "asking") =>
            sessions'[s].messages =
              Append(sessions[s].messages, Message("user", sessions'[s].user_input))]_vars

\* a question to a session with a full history failed: the history is the
\* full one, the chat shows the question and the error
C23_Witness ==
  \E s \in Sessions, q \in Inputs, e \in StreamErrors :
    /\ event = Event(s, "failed", "")
    /\ sessions[s].pc = "idle"
    /\ sessions[s].conversation_history = FullHistory
    /\ sessions[s].messages = <<Message("user", q), Message("assistant", ErrorMessage(e))>>

\* --------------------------------------------------------------------- C24
\* the step is the submission of the form of session s with button op
Submits(s, op) ==
  /\ event' # event
  /\ event' # <<>>
  /\ event'[1].session = s
  /\ event'[1].op = op

\* C24: Clear Chat empties messages and leaves conversation_history as it is,
\* Clear Memory empties both, and neither calls ask_stream, whatever the
\* input field holds.
C24_ClearButtons ==
  [][\A s \in Sessions :
       /\ Submits(s, "clear_chat") =>
            /\ sessions'[s].messages = <<>>
            /\ sessions'[s].conversation_history = sessions[s].conversation_history
            /\ sessions'[s].pc = "idle"
            /\ last' = last
       /\ Submits(s, "clear_memory") =>
            /\ sessions'[s].messages = <<>>
            /\ sessions'[s].conversation_history = <<>>
            /\ sessions'[s].pc = "idle"
            /\ last' = last]_vars

\* Clear Chat was pressed while the input field held a question, after an
\* exchange had been answered: the chat is empty, the history is not, and the
\* latest call of ask_stream is still the one of that exchange
C24_Witness ==
  \E s \in Sessions, q \in Inputs :
    /\ event = Event(s, "clear_chat", q)
    /\ sessions[s].messages = <<>>
    /\ sessions[s].pc = "idle"
    /\ Len(answered[s]) = 1
    /\ sessions[s].conversation_history = answered[s]
    /\ last # <<>>
    /\ last[1].session = s
    /\ last[1].question = answered[s][1].question

\* --------------------------------------------------------------------- C15
\* C15: for every path that contains "Session 3" in any case, whatever
\* comes before or directly after it, extract_session_number returns 3.
C15_Session3Anywhere ==
  (Returned("extract_session_number") /\ Contains(LowerStr(pin), <<"s", "e", "s", "s", "i", "o", "n", " ", "3">>))
    => pout[1] = 3

\* "session", white space, a digit: a session mention starts at position i
MentionAt(low, i) ==
  /\ StartsAt(low, i, <<"s", "e", "s", "s", "i", "o", "n">>)
  /\ \E j \in (i + 7)..Len(low) :
       /\ \A m \in (i + 7)..(j - 1) : IsSpace(low[m])
       /\ IsDigit(low[j])

\* the leftmost session mention of the path is "Session 3", in any case,
\* and no digit follows the 3
FirstMentionAt3(low, i) ==
  /\ StartsAt(low, i, <<"s", "e", "s", "s", "i", "o", "n", " ", "3">>)
  /\ (i + 9 <= Len(low) => ~IsDigit(low[i + 9]))
  /\ \A b \in 1..(i - 1) : ~MentionAt(low, b)

FirstMentionIsSession3(str) == \E i \in 1..Len(str) : FirstMentionAt3(LowerStr(str), i)

\* C15 as amended: when the first session mention of the path is
\* "Session 3" (any case) and no digit follows the 3, the result is 3.
C15_FirstMentionSession3 ==
  (Returned("extract_session_number") /\ FirstMentionIsSession3(pin)) => pout[1] = 3

\* "SESSION 3" in upper case, with another session mention behind it
C15_Witness ==
  /\ Returned("extract_session_number")
  /\ pin = <<"S", "E", "S", "S", "I", "O", "N", " ", "3">>
             \o <<"s", "e", "s", "s", "i", "o", "n", " ", "1">>
  /\ pout[1] = 3

\* --------------------------------------------------------------------- C17
\* The keyword rules of get_content_type as a table, in the order of the code.
ContentRules ==
  << [keys |-> {<<"s", "e", "s", "s", "i", "o", "n", " ", "1">>, <<"i", "m", "a", "g", "e", " ", "c", "r", "e", "a", "t", "i", "o", "n">>},
      tag |-> "session_1_image_creation"],
     [keys |-> {<<"s", "e", "s", "s", "i", "o", "n", " ", "2">>, <<"4", "t", " ", "m", "a", "n", "a", "g", "e", "m", "e", "n", "t">>},
      tag |-> "session_2_4t_management"],
     [keys |-> {<<"s", "e", "s", "s", "i", "o", "n", " ", "3">>, <<"c", "a", "p", "a", "b", "i", "l", "i", "t", "y">>},
      tag |-> "session_3_capability"],
     [keys |-> {<<"s", "e", "s", "s", "i", "o", "n", " ", "4">>, <<"p", "i", "t", "c", "h">>},
      tag |-> "session_4_pitch"],
     [keys |-> {<<"s", "e", "s", "s", "i", "o", "n", " ", "5">>, <<"b", "i", "n", "g", " ", "f", "a">>, <<"s", "t", "r", "a", "t", "a", "g", "e", "m">>},
      tag |-> "session_5_strategy"],
     [keys |-> {<<"s", "e", "s", "s", "i", "o", "n", " ", "6">>}, tag |-> "session_6_implementation"],
     [keys |-> {<<"c", "o", "m", "m", "u", "n", "i", "t", "y">>}, tag |-> "community_session"],
     [keys |-> {<<"r", "e", "v", "i", "s", "i", "o", "n">>}, tag |-> "revision_session"],
     [keys |-> {<<"b", "o", "a", "r", "d", "r", "o", "o", "m">>}, tag |-> "boardroom_session"] >>

RuleMatches(r, str) == \E key \in ContentRules[r].keys : Contains(LowerStr(str), key)

\* a key of rule r contains a key of rule q as a proper part: every path
\* that matches r through it matches q too
MoreSpecific(r, q) ==
  \E kr \in ContentRules[r].keys, kq \in ContentRules[q].keys :
    kr # kq /\ Contains(kr, kq)

Specificity == {rq \in (DOMAIN ContentRules) \X (DOMAIN ContentRules) : MoreSpecific(rq[1], rq[2])}

BareAndLabelled(text, vid) ==
  /\ Contains(text, <<"h", "t", "t", "p", "s", ":", "/", "/", "y", "o", "u", "t", "u", ".", "b", "e", "/">> \o vid)
  /\ Contains(text, <<"v", "i", "d", "e", "o", " ", "u", "r", "l", ":", " ", "h", "t", "t", "p", "s", ":", "/", "/", "y", "o", "u", "t", "u", "b", "e", ".", "c", "o", "m", "/", "w", "a", "t", "c", "h", "?", "v", "=">> \o vid)

\* how often the canonical URL of vid stands in the list urls
Occurrences(urls, vid) == Cardinality({a \in DOMAIN urls : urls[a] = CanonicalUrl(vid)})

\* C16: the returned list never holds the same video twice: it has exactly
\* one canonical URL for every distinct id matched by either pattern and
\* nothing else, also when a bare link and a labelled link carry the same id.
C16_OneUrlPerVideo ==
  Returned("extract_youtube_urls") =>
    LET urls == pout[1]
        ids == Range(Matches(1, pin)) \cup Range(Matches(2, pin))
    IN /\ \A a, b \in DOMAIN urls : a # b => urls[a] # urls[b]
       /\ \A vid \in ids : Occurrences(urls, vid) = 1
       /\ Len(urls) = Cardinality(ids)
       /\ \A vid \in {<<"a", "b", "c", "d", "e", "f", "g", "h", "i", "j", "k">>, <<"A", "B", "C", "D", "E", "F", "G", "H", "I", "J", "K">>} :
            BareAndLabelled(pin, vid) => Occurrences(urls, vid) = 1

\* the bare link and the labelled link of one video in one text
C16_Witness ==
  /\ Returned("extract_youtube_urls")
  /\ pin = <<"h", "t", "t", "p", "s", ":", "/", "/", "y", "o", "u", "t", "u", ".", "b", "e", "/", "a", "b", "c", "d", "e", "f", "g", "h", "i", "j", "k">> \o <<" ">> \o <<"v", "i", "d", "e", "o", " ", "u", "r", "l", ":", " ", "h", "t", "t", "p", "s", ":", "/", "/", "y", "o", "u", "t", "u", "b", "e", ".", "c", "o", "m", "/", "w", "a", "t", "c", "h", "?", "v", "=", "a", "b", "c", "d", "e", "f", "g", "h", "i", "j", "k">>
  /\ Len(Matches(1, pin)) = 2
  /\ Len(Matches(2, pin)) = 1
  /\ pout[1] = <<CanonicalUrl(<<"a", "b", "c", "d", "e", "f", "g", "h", "i", "j", "k">>)>>

\* --------------------------------------------------------------------- C19
\* every heading of the text, of any pattern of the section family (sec) or
\* of the subsection family
Headings(sec, text) == UNION {Range(FindIter(sec, k, Fold(text), text, 1)) : k \in 1..3}

\* the heading of S that starts last
Nearest(S) == CHOOSE h \in S : \A g \in S : g.start <= h.start

\* the fields num and title are those of the last heading of S, or None
\* when S is empty
IsNearestSection(r, S) ==
  IF S = {} THEN r.section_number = <<>> /\ r.section_title = <<>>
  ELSE r.section_number = <<Nearest(S).num>> /\ r.section_title = <<Nearest(S).title>>

IsNearestSubsection(r, S) ==
  IF S = {} THEN r.subsection = <<>> ELSE r.subsection = <<Nearest(S).title>>

\* C19: when the start of the chunk is located in the text, the section and
\* the subsection returned are those of the heading that starts last before
\* the located offset (a heading that starts exactly at the offset may count
\* or not), whatever pattern family it belongs to; a heading that starts
\* after the offset is never returned.
C19_NearestHeadingBefore ==
  (Returned("extract_section_info") /\ chunk_pos(TextOf(pin), ChunkOf(pin)) # -1) =>
    LET pos == chunk_pos(TextOf(pin), ChunkOf(pin))
        secs == Headings(TRUE, TextOf(pin))
        subs == Headings(FALSE, TextOf(pin))
    IN /\ \/ IsNearestSection(pout[1], {h \in secs : h.start - 1 < pos})
          \/ IsNearestSection(pout[1], {h \in secs : h.start - 1 <= pos})
       /\ \/ IsNearestSubsection(pout[1], {h \in subs : h.start - 1 < pos})
          \/ IsNearestSubsection(pout[1], {h \in subs : h.start - 1 <= pos})

\* --------------------------------------------------------------------- C11
\* the marked tables of a text: the lines of its start and end markers
MarkedTables(lines) ==
  {se \in (DOMAIN lines) \X (DOMAIN lines) :
     /\ lines[se[1]].kind = "start"
     /\ lines[se[2]].kind = "end"
     /\ se[1] < se[2]
     /\ \A m \in (se[1] + 1)..(se[2] - 1) : lines[m].kind # "end"}

\* chunk <<a, b>> begins or ends between two rows of the table whose markers
\* are the lines s and e (its rows are the lines s + 1 .. e - 2)
CutsTable(chunk, s, e) ==
  \/ s + 1 < chunk[1] /\ chunk[1] <= e - 2
  \/ s + 1 <= chunk[2] /\ chunk[2] < e - 2

\* C11: after mark_table_boundaries and the table-aware splitter no chunk
\* begins or ends inside a marked table, whatever the size of the table.
C11_NoChunkBoundaryInTable ==
  Returned("split_document") =>
    \A se \in MarkedTables(pout[1].full_content) :
      \A k \in DOMAIN pout[1].chunks : ~CutsTable(pout[1].chunks[k], se[1], se[2])

\* the same for the tables that, markers included, are shorter than chunk_size
C11_SmallTablesKeptWhole ==
  Returned("split_document") =>
    \A se \in MarkedTables(pout[1].full_content) :
      PieceLen(pout[1].full_content, se[1], se[2]) < chunk_size - chunk_overlap =>
        \A k \in DOMAIN pout[1].chunks : ~CutsTable(pout[1].chunks[k], se[1], se[2])

\* --------------------------------------------------------------------- C25
\* the content_type that names session n
SessionTag ==
  <<"session_1_image_creation", "session_2_4t_management", "session_3_capability",
    "session_4_pitch", "session_5_strategy", "session_6_implementation">>

\* C25: for every file path, when extract_session_number yields N in 1..6
\* the content_type is the tag of session N, when the category is
\* 'community' the content_type is 'community_session', and when the
\* category is 'revision' the content_type is 'revision_session'.
C25_TagsAgree ==
  Returned("load_document") =>
    /\ pout[1].session_number \in 1..6 =>
         pout[1].content_type = SessionTag[pout[1].session_number]
    /\ pout[1].category = <<"c", "o", "m", "m", "u", "n", "i", "t", "y">> => pout[1].content_type = "community_session"
    /\ pout[1].category = <<"r", "e", "v", "i", "s", "i", "o", "n">> => pout[1].content_type = "revision_session"

\* The part of C25 that holds: a chunk whose category is session_N has the
\* session number N.
C25_CategoryFollowsSessionNumber ==
  Returned("load_document") =>
    \A n \in 1..6 :
      pout[1].category = <<"s", "e", "s", "s", "i", "o", "n", "_">> \o Str(n) => pout[1].session_number = n

\* --------------------------------------------------------------------- C26
\* C26: for every document text, has_tables is true, and the table-aware
\* splitter and the banner line are used, exactly when extract_tables finds
\* a table block and mark_table_boundaries inserts a pair of markers; a text
\* with no header row, separator row and data row in sequence is not flagged.
C26_FlagIffTableMarked ==
  Returned("mark_tables") =>
    /\ pout[1].has_tables <=>
         (extract_tables(pin, 1) # <<>> /\ MarkedTables(pout[1].full_content) # {})
    /\ pout[1].banner = pout[1].has_tables
    /\ (pout[1].splitter = "table_aware_splitter") = pout[1].has_tables

\* The part of C26 that holds: every table block is marked, a text with a
\* table block is flagged, and the banner and the splitter follow the flag.
C26_TablesAreFlaggedAndMarked ==
  Returned("mark_tables") =>
    /\ Cardinality(MarkedTables(pout[1].full_content)) = Len(extract_tables(pin, 1))
    /\ extract_tables(pin, 1) # <<>> => pout[1].has_tables
    /\ pout[1].banner = pout[1].has_tables
    /\ (pout[1].splitter = "table_aware_splitter") = pout[1].has_tables
====
